---- MODULE Spec2Model ----
(***************************************************************************)
(* A model of the skyware labeler: the label log, the createLabel write    *)
(* path, the subscribeLabels join protocol and live fan-out, the           *)
(* queryLabels read path, the emitEvent authentication gate and the JWT    *)
(* verification of util/crypto.ts.                                         *)
(*                                                                         *)
(* Strings that the code takes apart (query parameters, uri patterns) are  *)
(* sequences of one-character strings.  A JavaScript object is a record;   *)
(* an absent key is a key that is not in the record's DOMAIN.              *)
(***************************************************************************)
EXTENDS Integers, Sequences, FiniteSets, TLC

VARIABLES rows, connections, wsState, broken, sub, sent, calls, emit, jwt, query, boot

serverVars == <<rows, connections, wsState, broken, sub, sent, calls>>
vars == <<rows, connections, wsState, broken, sub, sent, calls, emit, jwt, query, boot>>

(***************************************************************************)
(* Bounds of the model.                                                    *)
(***************************************************************************)
MaxSockets == 2
MaxCalls == 2
MaxCursor == 1
MaxScans == 1
MaxTicks == 2
MaxWrites == 3

Sockets == 1..MaxSockets
Calls == 1..(IF MaxCalls > MaxWrites THEN MaxCalls ELSE MaxWrites)
Callers == 1..MaxCalls
Writers == 1..MaxWrites

(***************************************************************************)
(* Small helpers on sequences and on maps (JavaScript Map objects).        *)
(***************************************************************************)
Range(s) == {s[i] : i \in DOMAIN s}

RECURSIVE SelectSeqIdx(_, _, _)
SelectSeqIdx(s, i, keep) ==
    IF i > Len(s) THEN <<>>
    ELSE (IF s[i] \in keep THEN <<s[i]>> ELSE <<>>) \o SelectSeqIdx(s, i + 1, keep)

Without(s, x) == SelectSeqIdx(s, 1, Range(s) \ {x})

MapHas(m, k) == k \in DOMAIN m
MapSet(m, k, v) == [x \in (DOMAIN m) \cup {k} |-> IF x = k THEN v ELSE m[x]]
MapDelete(m, k) == [x \in (DOMAIN m) \ {k} |-> m[x]]
EmptyMap == [x \in {} |-> <<>>]

(***************************************************************************)
(* parseInt(s, 10) and Number.prototype.toString(10) on strings given as   *)
(* sequences of characters.  NaN is the record with isNaN = TRUE.          *)
(***************************************************************************)
Digits == <<"0", "1", "2", "3", "4", "5", "6", "7", "8", "9">>
IsDigit(c) == c \in Range(Digits)
DigitVal(c) == (CHOOSE i \in DOMAIN Digits : Digits[i] = c) - 1

NaN == [isNaN |-> TRUE, val |-> 0]
Num(n) == [isNaN |-> FALSE, val |-> n]

RECURSIVE ParseDigits(_, _, _)
ParseDigits(s, i, acc) ==
    IF i > Len(s) \/ ~IsDigit(s[i]) THEN acc
    ELSE ParseDigits(s, i + 1, acc * 10 + DigitVal(s[i]))

ParseInt(s) ==
    LET neg == Len(s) >= 1 /\ s[1] = "-"
        start == IF Len(s) >= 1 /\ s[1] \in {"-", "+"} THEN 2 ELSE 1
    IN  IF start > Len(s) \/ ~IsDigit(s[start]) THEN NaN
        ELSE LET n == ParseDigits(s, start, 0) IN Num(IF neg THEN 0 - n ELSE n)

RECURSIVE ToString10(_)
ToString10(n) ==
    IF n < 0 THEN <<"-">> \o ToString10(0 - n)
    ELSE IF n < 10 THEN <<Digits[n + 1]>>
    ELSE ToString10(n \div 10) \o <<Digits[(n % 10) + 1]>>

(***************************************************************************)
(* Results of operations that may throw.  A thrown XRPCError carries its   *)
(* kind and status; any other thrown Error has kind "Error".               *)
(***************************************************************************)
Ok(v) == [ok |-> TRUE, val |-> v]
Throw(status, kind) == [ok |-> FALSE, err |-> kind, status |-> status]
ThrowError == [ok |-> FALSE, err |-> "Error", status |-> 0]

(***************************************************************************)
(* Keys and signatures (util/crypto.ts).  A private key is a curve and a   *)
(* number; its public key is a point, whose raw bytes are 33 (compressed)  *)
(* or 65 (uncompressed) bytes: a header byte, a byte that tells the curve  *)
(* the point lies on, the key's number, then zeros.  A signature names the *)
(* private key that made it and the hash it was made over.                 *)
(***************************************************************************)
P256_DID_PREFIX == <<128, 36>>
SECP256K1_DID_PREFIX == <<231, 1>>
BASE58_MULTIBASE_PREFIX == "z"
DID_KEY_PREFIX == "did:key:"
P256_JWT_ALG == "ES256"
SECP256K1_JWT_ALG == "ES256K"
CompressedLen == 33
UncompressedLen == 65
CACHE_TTL_MS == 60 * 60 * 1000

CurveByte(curve) == IF curve = "p256" THEN 1 ELSE 2
StrLen(str) == IF str \in {"p256", "k256"} THEN 4 ELSE 0

sha256(msg) == [sha256 |-> msg]

PrivateKey(curve, k) == [curve |-> curve, k |-> k]
SigningKey == PrivateKey("k256", 9)

toRawBytes(point, isCompressed) ==
    [i \in 1..(IF isCompressed THEN CompressedLen ELSE UncompressedLen) |->
        IF i = 1 THEN (IF isCompressed THEN 2 ELSE 4)
        ELSE IF i = 2 THEN CurveByte(point.curve)
        ELSE IF i = 3 THEN point.k
        ELSE 0]

PublicKeyBytes(priv) == toRawBytes(priv, TRUE)

\* ProjectivePoint.fromHex of the given curve
fromHex(curve, bytes) ==
    IF /\ \/ (Len(bytes) = CompressedLen /\ bytes[1] \in {2, 3})
          \/ (Len(bytes) = UncompressedLen /\ bytes[1] = 4)
       /\ bytes[2] = CurveByte(curve)
    THEN Ok([curve |-> curve, k |-> bytes[3]])
    ELSE ThrowError

\* The rest of a function after a call that may throw: the exception
\* propagates, otherwise the function goes on with the value.
Then(r, Rest(_)) == IF r.ok THEN Rest(r.val) ELSE r

\* curve.verify(sig, msgHash, keyBytes, { lowS: false })
curveVerify(curve, sig, msgHash, keyBytes) ==
    Then(fromHex(curve, keyBytes), LAMBDA point :
        Ok(sig.signer = point /\ sig.over = msgHash))

k256Sign(privateKey, msg) == [signer |-> privateKey, over |-> sha256(msg)]

subarray(bytes, from) == SubSeq(bytes, from + 1, Len(bytes))

hasPrefix(bytes, prefix) ==
    SubSeq(bytes, 1, IF Len(prefix) < Len(bytes) THEN Len(prefix) ELSE Len(bytes)) = prefix

compressPubkey(curve, keyBytes) ==
    Then(fromHex(curve, keyBytes), LAMBDA point : Ok(toRawBytes(point, TRUE)))

decompressPubkey(curve, compressed) ==
    IF Len(compressed) # CompressedLen THEN ThrowError
    ELSE Then(fromHex(curve, compressed), LAMBDA point : Ok(toRawBytes(point, FALSE)))

(***************************************************************************)
(* A key string is its scheme ("did:key:" or none), its multibase          *)
(* character and the bytes that the rest decodes to in that base.          *)
(***************************************************************************)
KeyString(scheme, base, data) == [scheme |-> scheme, base |-> base, data |-> data]

extractMultikey(did) ==
    IF did.scheme # DID_KEY_PREFIX THEN ThrowError
    ELSE Ok(KeyString("", did.base, did.data))

extractPrefixedBytes(multikey) ==
    IF ~(multikey.scheme = "" /\ multikey.base = BASE58_MULTIBASE_PREFIX) THEN ThrowError
    ELSE Ok(multikey.data)

CurvePrefix(curve) == IF curve = "p256" THEN P256_DID_PREFIX ELSE SECP256K1_DID_PREFIX

formatMultikey(jwtAlg, keyBytes) ==
    IF jwtAlg \notin {P256_JWT_ALG, SECP256K1_JWT_ALG} THEN ThrowError
    ELSE Then(compressPubkey(IF jwtAlg = P256_JWT_ALG THEN "p256" ELSE "k256", keyBytes),
              LAMBDA compressed :
                  Ok(KeyString("", BASE58_MULTIBASE_PREFIX,
                               (IF jwtAlg = P256_JWT_ALG THEN P256_DID_PREFIX
                                ELSE SECP256K1_DID_PREFIX) \o compressed)))

formatDidKey(jwtAlg, keyBytes) ==
    Then(formatMultikey(jwtAlg, keyBytes), LAMBDA multikey :
        Ok(KeyString(DID_KEY_PREFIX, multikey.base, multikey.data)))

parseMultikey(key) ==
    Then(extractMultikey(key), LAMBDA multikey :
    Then(extractPrefixedBytes(multikey), LAMBDA prefixedBytes :
    Then(IF hasPrefix(prefixedBytes, P256_DID_PREFIX) THEN Ok("p256")
         ELSE IF hasPrefix(prefixedBytes, P256_DID_PREFIX) THEN Ok("k256")
         ELSE ThrowError, LAMBDA keyCurve :
    Then(decompressPubkey(keyCurve, subarray(prefixedBytes, StrLen(keyCurve))), LAMBDA keyBytes :
        Ok([jwtAlg |-> IF keyCurve = "p256" THEN P256_JWT_ALG ELSE SECP256K1_JWT_ALG,
            keyBytes |-> keyBytes])))))

verifyDidSig(curve, did, data, sig) ==
    Then(extractMultikey(did), LAMBDA multikey :
    Then(extractPrefixedBytes(multikey), LAMBDA prefixedBytes :
        IF ~hasPrefix(prefixedBytes, CurvePrefix(curve)) THEN ThrowError
        ELSE curveVerify(curve, sig, sha256(data),
                         subarray(prefixedBytes, Len(CurvePrefix(curve))))))

verifySignatureWithKey(didKey, msgBytes, sigBytes) ==
    IF didKey.scheme # "did:key:" THEN ThrowError
    ELSE Then(parseMultikey(KeyString("", didKey.base, didKey.data)), LAMBDA parsed :
            verifyDidSig(IF parsed.jwtAlg = P256_JWT_ALG THEN "p256" ELSE "k256",
                         didKey, msgBytes, sigBytes))

multibaseToBytes(mb) ==
    IF mb.base \in {"f", "F", "b", "B", "z", "m", "u", "U"} THEN Ok(mb.data) ELSE ThrowError

(***************************************************************************)
(* DIDs and DID documents.  did.split(":") is a table over the DIDs of the *)
(* model.                                                                  *)
(***************************************************************************)
LabelerDid == "did:plc:labeler"
AliceDid == "did:plc:alice"
BobDid == "did:web:bob.example"
CarolDid == "did:key:carol"

DidSplit(did) ==
    CASE did = LabelerDid -> <<"did", "plc", "labeler">>
      [] did = AliceDid -> <<"did", "plc", "alice">>
      [] did = BobDid -> <<"did", "web", "bob.example">>
      [] OTHER -> <<"did", "key", "carol">>

NotFound == [found |-> FALSE]
Document(methods) == [found |-> TRUE, verificationMethod |-> methods]
VerificationMethod(idDid, type, mb) ==
    [id |-> [did |-> idDid, fragment |-> "atproto"], type |-> type, publicKeyMultibase |-> mb]

\* doc.verificationMethod.find(...)
FindAtprotoKey(methods, did) ==
    LET hits == {i \in DOMAIN methods :
                    /\ methods[i].id.fragment = "atproto"
                    /\ methods[i].id.did \in {did, ""}}
    IN  IF hits = {} THEN ThrowError
        ELSE Ok(methods[CHOOSE i \in hits : \A j \in hits : i <= j])

parseKeyFromDidDocument(doc, did) ==
    Then(FindAtprotoKey(doc.verificationMethod, did), LAMBDA key :
    Then(multibaseToBytes(key.publicKeyMultibase), LAMBDA keyBytes :
        IF key.type = "EcdsaSecp256r1VerificationKey2019"
        THEN formatDidKey(P256_JWT_ALG, keyBytes)
        ELSE IF key.type = "EcdsaSecp256k1VerificationKey2019"
        THEN formatDidKey(SECP256K1_JWT_ALG, keyBytes)
        ELSE IF key.type = "Multikey"
        THEN Then(parseMultikey(key.publicKeyMultibase), LAMBDA parsed :
                formatDidKey(parsed.jwtAlg, parsed.keyBytes))
        ELSE ThrowError))

\* fetch of the DID document and parseKeyFromDidDocument
FetchKey(did, directory) ==
    IF DidSplit(did)[2] = "plc"
    THEN IF ~directory[did].found THEN ThrowError
         ELSE parseKeyFromDidDocument(directory[did], did)
    ELSE IF DidSplit(did)[2] = "web"
    THEN IF Len(DidSplit(did)) # 3 THEN ThrowError
         ELSE IF ~directory[did].found THEN ThrowError
         ELSE parseKeyFromDidDocument(directory[did], did)
    ELSE ThrowError

\* didToSigningKeyCache.set(did, { key, expires }) unless the fetch threw
CacheKey(didKey, did, cache, now) ==
    IF ~didKey.ok THEN [res |-> ThrowError, cache |-> cache]
    ELSE [res |-> didKey,
          cache |-> MapSet(cache, did, [key |-> didKey.val, expires |-> now + CACHE_TTL_MS])]

resolveDidToSigningKeyKeepingExpired(did, forceRefresh, cache, directory, now) ==
    IF ~forceRefresh /\ MapHas(cache, did) /\ now < cache[did].expires
    THEN [res |-> Ok(cache[did].key), cache |-> cache]
    ELSE CacheKey(FetchKey(did, directory), did, cache, now)

\* The result, and the cache as the call leaves it.
resolveDidToSigningKey(did, forceRefresh, cache, directory, now) ==
    IF ~forceRefresh /\ MapHas(cache, did) /\ now < cache[did].expires
    THEN [res |-> Ok(cache[did].key), cache |-> cache]
    ELSE CacheKey(FetchKey(did, directory), did,
                  IF ~forceRefresh /\ MapHas(cache, did) THEN MapDelete(cache, did) ELSE cache,
                  now)

(***************************************************************************)
(* JWTs.  A JWT string is the sequence of its dot-separated parts; the     *)
(* payload part is the JSON object it decodes to, the signature part the   *)
(* signature it decodes to.                                                *)
(***************************************************************************)
NoLxm == ""
Undefined == "undefined"

\* Date.now() / 1000 > exp, on the reals
Expired(now, exp) == (now \div 1000 > exp) \/ (now \div 1000 = exp /\ now % 1000 > 0)

\* A payload part that is not the base64url text of a JSON value
NotJson == [notJson |-> TRUE]

\* JSON.parse throws a SyntaxError for such a part
parsePayload(part) ==
    IF part = NotJson THEN ThrowError
    ELSE IF {"iss", "aud", "exp"} \subseteq DOMAIN part THEN Ok(part)
    ELSE Throw(401, "BadJwt")

BadJwtSignature(cache) == [res |-> Throw(401, "BadJwtSignature"), cache |-> cache]

\* verifyJwt from the verification with the fresh key on
verifyFresh(freshSig, fresh, payload) ==
    IF ~freshSig.ok THEN BadJwtSignature(fresh.cache)
    ELSE IF freshSig.val THEN [res |-> Ok(payload), cache |-> fresh.cache]
    ELSE BadJwtSignature(fresh.cache)

\* verifyJwt from the forced refresh of the signing key on
verifyWithFresh(fresh, first, payload, msgBytes, sig) ==
    IF ~fresh.res.ok THEN [res |-> ThrowError, cache |-> fresh.cache]
    ELSE IF fresh.res.val = first.res.val THEN BadJwtSignature(fresh.cache)
    ELSE verifyFresh(verifySignatureWithKey(fresh.res.val, msgBytes, sig), fresh, payload)

\* verifyJwt from the first verification on
verifyFirst(firstSig, first, payload, msgBytes, sig, directory, now) ==
    IF ~firstSig.ok THEN BadJwtSignature(first.cache)
    ELSE IF firstSig.val THEN [res |-> Ok(payload), cache |-> first.cache]
    ELSE verifyWithFresh(
             resolveDidToSigningKey(payload.iss, TRUE, first.cache, directory, now),
             first, payload, msgBytes, sig)

\* verifyJwt from the resolution of the signing key on
verifyWithKey(first, payload, msgBytes, sig, directory, now) ==
    IF ~first.res.ok THEN [res |-> ThrowError, cache |-> first.cache]
    ELSE verifyFirst(verifySignatureWithKey(first.res.val, msgBytes, sig),
                     first, payload, msgBytes, sig, directory, now)

\* verifyJwt from the parsed payload on
verifyPayload(parsed, jwtStr, ownDid, lxm, cache, directory, now) ==
    IF ~parsed.ok THEN [res |-> parsed, cache |-> cache]
    ELSE IF Expired(now, parsed.val.exp)
         THEN [res |-> Throw(401, "JwtExpired"), cache |-> cache]
    ELSE IF ownDid # "" /\ parsed.val.aud # ownDid
         THEN [res |-> Throw(401, "BadJwtAudience"), cache |-> cache]
    ELSE IF lxm # NoLxm
            /\ (IF "lxm" \in DOMAIN parsed.val THEN parsed.val.lxm ELSE Undefined) # lxm
         THEN [res |-> Throw(401, "BadJwtLexiconMethod"), cache |-> cache]
    ELSE verifyWithKey(resolveDidToSigningKey(parsed.val.iss, FALSE, cache, directory, now),
                       parsed.val, <<jwtStr[1], jwtStr[2]>>, jwtStr[3], directory, now)

verifyJwt(jwtStr, ownDid, lxm, cache, directory, now) ==
    IF Len(jwtStr) # 3 THEN [res |-> Throw(401, "BadJwt"), cache |-> cache]
    ELSE verifyPayload(parsePayload(jwtStr[2]), jwtStr, ownDid, lxm, cache, directory, now)

(***************************************************************************)
(* Labels (util/labels.ts, util/util.ts).                                  *)
(***************************************************************************)
LABEL_VERSION == 1
SqlNull == "NULL"
NowIso == "now"
SUBSCRIBE_NSID == "com.atproto.label.subscribeLabels"

\* The keys whose values are strings and so may hold a nullish value.
NullableKeys == {"src", "cid", "cts", "exp"}

excludeNullish(obj) ==
    LET keep == {k \in DOMAIN obj : ~(k \in NullableKeys /\ obj[k] = Undefined)}
    IN  [k \in keep |-> obj[k]]

Truthy(obj, k) == k \in DOMAIN obj /\ obj[k] = TRUE

cborEncode(value) == [cbor |-> value]

formatLabelCbor(label) ==
    excludeNullish([k \in (DOMAIN label) \cup {"ver", "neg"} |->
        IF k = "ver" THEN LABEL_VERSION
        ELSE IF k = "neg" THEN Truthy(label, "neg")
        ELSE label[k]])

signLabel(label, signingKey) ==
    LET toSign == formatLabelCbor(label)
        sig == k256Sign(signingKey, cborEncode(toSign))
    IN  [k \in (DOMAIN toSign) \cup {"sig"} |-> IF k = "sig" THEN sig ELSE toSign[k]]

toBytes(sig) == [bytes |-> sig]
fromBytes(bytes) == bytes.bytes

\* A signature value is a Uint8Array (or ArrayBuffer), the Bytes object of
\* one, or a value of another type.
isBytes(sig) == DOMAIN sig = {"bytes"}
isUint8Array(sig) == "signer" \in DOMAIN sig

toSignedLabel(label, signingKey) ==
    IF "sig" \in DOMAIN label
    THEN IF isBytes(label.sig) THEN Ok([label EXCEPT !.sig = fromBytes(label.sig)])
         ELSE IF isUint8Array(label.sig) THEN Ok(label)
         ELSE ThrowError
    ELSE Ok(signLabel(label, signingKey))

formatLabel(label) ==
    excludeNullish([k \in (DOMAIN label) \cup {"ver", "neg", "sig"} |->
        IF k = "ver" THEN LABEL_VERSION
        ELSE IF k = "neg" THEN Truthy(label, "neg")
        ELSE IF k = "sig" THEN toBytes(label.sig)
        ELSE label[k]])

(***************************************************************************)
(* Frames (util/util.ts).  The bytes of a frame are the pair of its two    *)
(* encoded objects.                                                        *)
(***************************************************************************)
frameToBytes(type, body, t) ==
    LET header == IF type = "error" THEN [op |-> -1] ELSE [op |-> 1, t |-> t]
    IN  <<cborEncode(header), cborEncode(body)>>

MessageFrame(seq, label) ==
    frameToBytes("message", [seq |-> seq, labels |-> <<formatLabel(label)>>], "#labels")

ErrorFrame(error, message) ==
    frameToBytes("error", [error |-> error, message |-> message], "")

(***************************************************************************)
(* The labels table.  rows is the table in insertion order; id is the      *)
(* AUTOINCREMENT primary key.                                              *)
(***************************************************************************)
MaxOf(S) == IF S = {} THEN 0 ELSE CHOOSE m \in S : \A x \in S : x <= m

RowIds(table) == {table[i].id : i \in DOMAIN table}

NextIdStale(table) == IF table = <<>> THEN 1 ELSE MaxOf(RowIds(table))
NextId(table) == MaxOf(RowIds(table)) + 1

InsertRowWithoutSig(table, signed) ==
    Append(table,
           [id |-> NextId(table),
            src |-> signed.src,
            uri |-> signed.uri,
            cid |-> IF "cid" \in DOMAIN signed /\ signed.cid # "" THEN signed.cid ELSE SqlNull,
            val |-> signed.val,
            neg |-> IF Truthy(signed, "neg") THEN 1 ELSE 0,
            cts |-> signed.cts,
            exp |-> IF "exp" \in DOMAIN signed /\ signed.exp # "" THEN signed.exp ELSE SqlNull,
            sig |-> [null |-> TRUE]])

\* INSERT INTO labels (src, uri, cid, val, neg, cts, exp, sig) ... RETURNING id
InsertRow(table, signed) ==
    Append(table,
           [id |-> NextId(table),
            src |-> signed.src,
            uri |-> signed.uri,
            cid |-> IF "cid" \in DOMAIN signed /\ signed.cid # "" THEN signed.cid ELSE SqlNull,
            val |-> signed.val,
            neg |-> IF Truthy(signed, "neg") THEN 1 ELSE 0,
            cts |-> signed.cts,
            exp |-> IF "exp" \in DOMAIN signed /\ signed.exp # "" THEN signed.exp ELSE SqlNull,
            sig |-> signed.sig])

\* SELECT MAX(id) AS id FROM labels, then Number(latest.rows[0]?.id) ?? 0
SelectMaxId(table) == MaxOf(RowIds(table))

\* ORDER BY id ASC of a set of row indices
RECURSIVE OrderById(_, _)
OrderById(table, idx) ==
    IF idx = {} THEN <<>>
    ELSE LET i == CHOOSE j \in idx : \A k \in idx : table[j].id <= table[k].id
         IN  <<table[i]>> \o OrderById(table, idx \ {i})

\* SELECT * FROM labels WHERE id > ? ORDER BY id ASC
SelectAfter(table, cursor) ==
    OrderById(table, {i \in DOMAIN table : table[i].id > cursor})

\* The label object that the replay loop rebuilds from a row.
RowToLabel(row) ==
    LET keys == {"src", "uri", "val", "neg", "cts", "sig"}
                \cup (IF row.cid \notin {SqlNull, ""} THEN {"cid"} ELSE {})
                \cup (IF row.exp \notin {SqlNull, ""} THEN {"exp"} ELSE {})
    IN  [k \in keys |-> IF k = "neg" THEN row.neg # 0 ELSE row[k]]

(***************************************************************************)
(* The subscriber set: connections is the Map from request NSID to the Set *)
(* of sockets; a Set is kept as the sequence of its members in insertion   *)
(* order, which is the order forEach visits them in.                       *)
(***************************************************************************)
addSubscription(conns, nsid, ws) ==
    LET subs == IF MapHas(conns, nsid) THEN conns[nsid] ELSE <<>>
        added == IF ws \in Range(subs) THEN subs ELSE Append(subs, ws)
    IN  MapSet(conns, nsid, added)

removeSubscriptionKeepingEmpty(conns, nsid, ws) ==
    IF MapHas(conns, nsid) THEN MapSet(conns, nsid, Without(conns[nsid], ws)) ELSE conns

removeSubscription(conns, nsid, ws) ==
    IF MapHas(conns, nsid)
    THEN LET subs == Without(conns[nsid], ws)
         IN  IF Len(subs) = 0 THEN MapDelete(conns, nsid) ELSE MapSet(conns, nsid, subs)
    ELSE conns

LiveSeq(conns) == IF MapHas(conns, SUBSCRIBE_NSID) THEN conns[SUBSCRIBE_NSID] ELSE <<>>
LiveSet(conns) == Range(LiveSeq(conns))

(***************************************************************************)
(* ws.send and ws.terminate.  sent[ws] is the sequence of the frames that  *)
(* were handed to ws.send and accepted, each with the part of the code     *)
(* that sent it and the socket's state at that moment.  A send to a socket *)
(* in broken throws.                                                       *)
(***************************************************************************)
Sent(frame, via, ready) == [frame |-> frame, via |-> via, ready |-> ready]

terminate(state) == IF state = "open" THEN "closing" ELSE state

\* forEach((ws) => ws.send(bytes)): the sockets visited before the first throw
Delivered(live, bad) ==
    LET stop == IF \E i \in DOMAIN live : live[i] \in bad
                THEN CHOOSE i \in DOMAIN live :
                        live[i] \in bad /\ \A j \in 1..(i - 1) : live[j] \notin bad
                ELSE Len(live) + 1
    IN  {live[i] : i \in 1..(stop - 1)}

emitLabel(conns, bad, log, states, seq, label) ==
    LET bytes == MessageFrame(seq, label)
        live == LiveSeq(conns)
        got == Delivered(live, bad)
    IN  [sent |-> [ws \in DOMAIN log |->
                     IF ws \in got
                     THEN Append(log[ws], Sent(bytes, "live", states[ws]))
                     ELSE log[ws]],
         threw |-> got # Range(live)]

(***************************************************************************)
(* createLabel / saveLabel (async): the call signs the label and issues    *)
(* the INSERT; the store runs it; the call resumes and broadcasts.         *)
(***************************************************************************)
NoCall == [pc |-> "idle", origin |-> [kind |-> "none"], doneBefore |-> {}]

StreamLabelData == {[uri |-> <<"a">>, val |-> "spam"]}

CompletedIds == {calls[d].id : d \in {e \in Calls : calls[e].pc \in {"done", "threw"}}}

createLabelData(label) ==
    excludeNullish([k \in (DOMAIN label) \cup {"src", "cts"} |->
        IF k = "src" THEN (IF "src" \in DOMAIN label /\ label.src # Undefined
                           THEN label.src ELSE LabelerDid)
        ELSE IF k = "cts" THEN (IF "cts" \in DOMAIN label /\ label.cts # Undefined
                                THEN label.cts ELSE NowIso)
        ELSE label[k]])

createLabelsWithoutNeg(subject, labels) ==
    [i \in 1..Len(labels.create) |-> [k \in DOMAIN subject \cup {"val"} |->
        IF k = "val" THEN labels.create[i] ELSE subject[k]]]
    \o [i \in 1..Len(labels.negate) |-> [k \in DOMAIN subject \cup {"val"} |->
        IF k = "val" THEN labels.negate[i] ELSE subject[k]]]

\* createLabels: the drafts, create values first, then negate values
createLabels(subject, labels) ==
    [i \in 1..Len(labels.create) |-> [k \in DOMAIN subject \cup {"val"} |->
        IF k = "val" THEN labels.create[i] ELSE subject[k]]]
    \o [i \in 1..Len(labels.negate) |-> [k \in DOMAIN subject \cup {"val", "neg"} |->
        IF k = "val" THEN labels.negate[i] ELSE IF k = "neg" THEN TRUE ELSE subject[k]]]

errorHandler(err) ==
    IF err.err = "Error"
    THEN [status |-> 500, error |-> "InternalServerError"]
    ELSE [status |-> err.status, error |-> err.err]

NoResp == [status |-> 0]

Direct == [kind |-> "direct"]
ForEmit == [kind |-> "emit", req |-> emit.req, auth |-> emit.auth, authed |-> emit.authed]

ForLabels == [kind |-> "labels"]

DbInitLockNotAwaited == TRUE

\* await this.#dbInitLock: the caller goes on once initializeDatabase,
\* started by the constructor, has resolved.
DbInitLockResolved == boot.init = "ready"

\* createLabel called by the application (direct) or by createLabels, one
\* label after the other, for the emitEvent request in progress (emit) or
\* for the application (labels).
CreateLabel(c, data, kind) ==
    /\ DbInitLockResolved
    /\ calls[c].pc = "idle"
    /\ \A d \in Calls : d < c => calls[d].pc # "idle"
    /\ IF kind # "direct"
       THEN /\ emit.phase = "creating"
            /\ emit.kind = kind
            /\ emit.todo # <<>>
            /\ data = Head(emit.todo)
            /\ IF emit.cur = 0 THEN TRUE ELSE calls[emit.cur].pc = "done"
            /\ IF toSignedLabel(createLabelData(data), SigningKey).ok
               THEN emit' = [emit EXCEPT !.todo = Tail(@), !.cur = c]
               ELSE IF kind = "emit"
               THEN emit' = [emit EXCEPT !.phase = "responded", !.todo = <<>>,
                                         !.resp = errorHandler(ThrowError)]
               ELSE emit' = [emit EXCEPT !.phase = "threw", !.todo = <<>>]
       ELSE UNCHANGED emit
    /\ LET signed == toSignedLabel(createLabelData(data), SigningKey)
       IN  calls' = [calls EXCEPT ![c] =
                        IF signed.ok
                        THEN [pc |-> "insert",
                              signed |-> signed.val,
                              origin |-> IF kind = "emit" THEN ForEmit
                                         ELSE IF kind = "labels" THEN ForLabels ELSE Direct,
                              doneBefore |-> CompletedIds]
                        ELSE [pc |-> "failed",
                              origin |-> IF kind = "emit" THEN ForEmit
                                         ELSE IF kind = "labels" THEN ForLabels ELSE Direct,
                              doneBefore |-> CompletedIds]]
    /\ UNCHANGED <<rows, connections, wsState, broken, sub, sent, jwt, query, boot>>

DbInsertReplacing(c) ==
    /\ calls[c].pc = "insert"
    /\ rows' = IF rows = <<>> THEN InsertRow(rows, calls[c].signed)
               ELSE [rows EXCEPT ![Len(rows)] = InsertRow(rows, calls[c].signed)[Len(rows) + 1]]
    /\ calls' = [calls EXCEPT ![c] =
                    [pc |-> "inserted",
                     signed |-> calls[c].signed,
                     origin |-> calls[c].origin,
                     id |-> rows'[Len(rows')].id,
                     doneBefore |-> calls[c].doneBefore]]
    /\ UNCHANGED <<connections, wsState, broken, sub, sent, emit, jwt, query, boot>>

DbInsert(c) ==
    /\ calls[c].pc = "insert"
    /\ rows' = InsertRow(rows, calls[c].signed)
    /\ calls' = [calls EXCEPT ![c] =
                    [pc |-> "inserted",
                     signed |-> calls[c].signed,
                     origin |-> calls[c].origin,
                     id |-> rows'[Len(rows')].id,
                     doneBefore |-> calls[c].doneBefore]]
    /\ UNCHANGED <<connections, wsState, broken, sub, sent, emit, jwt, query, boot>>

\* return { id, ...formatLabel(signed) }
SavedLabel(id, signed) ==
    LET label == formatLabel(signed)
    IN  [k \in DOMAIN label \cup {"id"} |-> IF k = "id" THEN id ELSE label[k]]

\* saveLabel resumes after the INSERT and broadcasts; when the label was the
\* last of an emitEvent request, or the broadcast threw, the request is
\* answered.
SaveLabelResume(c) ==
    /\ calls[c].pc = "inserted"
    /\ LET out == emitLabel(connections, broken, sent, wsState, calls[c].id, calls[c].signed)
           saved == [id |-> calls[c].id, label |-> formatLabel(calls[c].signed)]
       IN  /\ sent' = out.sent
           /\ calls' = [calls EXCEPT ![c] =
                            IF out.threw THEN [calls[c] EXCEPT !.pc = "threw"]
                            ELSE [pc |-> "done",
                                  signed |-> calls[c].signed,
                                  origin |-> calls[c].origin,
                                  id |-> calls[c].id,
                                  doneBefore |-> calls[c].doneBefore,
                                  returned |-> SavedLabel(calls[c].id, calls[c].signed)]]
           /\ IF calls[c].origin.kind = "emit"
              THEN IF out.threw
                   THEN emit' = [emit EXCEPT !.phase = "responded", !.todo = <<>>,
                                             !.resp = errorHandler(ThrowError)]
                   ELSE IF emit.todo = <<>>
                   THEN emit' = [emit EXCEPT !.phase = "responded",
                                             !.created = Append(@, saved),
                                             !.resp = [status |-> 200,
                                                       id |-> Append(emit.created, saved)[1].id]]
                   ELSE emit' = [emit EXCEPT !.created = Append(@, saved)]
              ELSE IF calls[c].origin.kind = "labels"
              THEN IF out.threw
                   THEN emit' = [emit EXCEPT !.phase = "threw", !.todo = <<>>]
                   ELSE IF emit.todo = <<>>
                   THEN emit' = [emit EXCEPT !.phase = "returned", !.created = Append(@, saved)]
                   ELSE emit' = [emit EXCEPT !.created = Append(@, saved)]
              ELSE UNCHANGED emit
    /\ UNCHANGED <<rows, connections, wsState, broken, sub, jwt, query, boot>>

(***************************************************************************)
(* subscribeLabelsHandler (async).                                         *)
(***************************************************************************)
\* joined is the last id of the log when a subscriber without cursor was
\* registered; the handler does not read it, the statements about the live
\* tail do.  delivered is the number of the frames handed to ws.send that
\* the transport has passed on to the consumer; the server does not read it.
NoSub ==
    [pc |-> "none", cursor |-> NaN, latest |-> 0, replay |-> <<>>, onClose |-> FALSE, joined |-> 0,
     delivered |-> 0]

SubCursors == {<<>>, <<"x">>} \cup {ToString10(n) : n \in 0..MaxCursor}

\* for (const row of result.rows) ws.send(frame(row))
RECURSIVE ReplayFrames(_, _)
ReplayFrames(result, ready) ==
    IF result = <<>> THEN <<>>
    ELSE <<Sent(MessageFrame(result[1].id, RowToLabel(result[1])), "replay", ready)>>
         \o ReplayFrames(Tail(result), ready)

SubscribeLabels(ws, cursorStr) ==
    /\ sub[ws].pc = "none"
    /\ \A v \in Sockets : v < ws => sub[v].pc # "none"
    /\ wsState' = [wsState EXCEPT ![ws] = "open"]
    /\ LET cursor == ParseInt(IF cursorStr = <<>> THEN <<"N", "a", "N">> ELSE cursorStr)
       IN  IF cursor.isNaN
           THEN /\ connections' = addSubscription(connections, SUBSCRIBE_NSID, ws)
                /\ sub' = [sub EXCEPT ![ws] = [NoSub EXCEPT !.pc = "live", !.onClose = TRUE,
                                                            !.joined = SelectMaxId(rows)]]
           ELSE /\ sub' = [sub EXCEPT ![ws] = [NoSub EXCEPT !.pc = "awaitLatest", !.cursor = cursor]]
                /\ UNCHANGED connections
    /\ UNCHANGED <<rows, broken, sent, calls, emit, jwt, query, boot>>

DbMaxId(ws) ==
    /\ sub[ws].pc = "awaitLatest"
    /\ sub' = [sub EXCEPT ![ws].pc = "gotLatest", ![ws].latest = SelectMaxId(rows)]
    /\ UNCHANGED <<rows, connections, wsState, broken, sent, calls, emit, jwt, query, boot>>

SubAfterLatest(ws) ==
    /\ sub[ws].pc = "gotLatest"
    /\ IF sub[ws].cursor.val > sub[ws].latest
       THEN IF ws \in broken
            THEN /\ sub' = [sub EXCEPT ![ws].pc = "rejected"]
                 /\ UNCHANGED <<sent, wsState>>
            ELSE /\ sent' = [sent EXCEPT ![ws] =
                        Append(@, Sent(ErrorFrame("FutureCursor", "Cursor is in the future"),
                                       "error", wsState[ws]))]
                 /\ wsState' = [wsState EXCEPT ![ws] = terminate(@)]
                 /\ sub' = [sub EXCEPT ![ws].pc = "awaitReplay"]
       ELSE /\ sub' = [sub EXCEPT ![ws].pc = "awaitReplay"]
            /\ UNCHANGED <<sent, wsState>>
    /\ UNCHANGED <<rows, connections, broken, calls, emit, jwt, query, boot>>

DbReplay(ws) ==
    /\ sub[ws].pc = "awaitReplay"
    /\ sub' = [sub EXCEPT ![ws].pc = "gotReplay",
                          ![ws].replay = SelectAfter(rows, sub[ws].cursor.val)]
    /\ UNCHANGED <<rows, connections, wsState, broken, sent, calls, emit, jwt, query, boot>>

SubAfterReplay(ws) ==
    /\ sub[ws].pc = "gotReplay"
    /\ IF ws \in broken /\ sub[ws].replay # <<>>
       THEN \* the first send throws, and so does the send of the error frame in the catch
            /\ sub' = [sub EXCEPT ![ws].pc = "rejected", ![ws].replay = <<>>]
            /\ UNCHANGED <<sent, connections>>
       ELSE /\ sent' = [sent EXCEPT ![ws] = @ \o ReplayFrames(sub[ws].replay, wsState[ws])]
            /\ connections' = addSubscription(connections, SUBSCRIBE_NSID, ws)
            /\ sub' = [sub EXCEPT ![ws].pc = "live", ![ws].replay = <<>>, ![ws].onClose = TRUE]
    /\ UNCHANGED <<rows, wsState, broken, calls, emit, jwt, query, boot>>

\* The socket's close event: the transport closed, or terminate() took effect.
Close(ws) ==
    /\ wsState[ws] \in {"open", "closing"}
    /\ wsState' = [wsState EXCEPT ![ws] = "closed"]
    /\ connections' = IF sub[ws].onClose
                      THEN removeSubscription(connections, SUBSCRIBE_NSID, ws)
                      ELSE connections
    /\ UNCHANGED <<rows, broken, sub, sent, calls, emit, jwt, query, boot>>

\* From now on ws.send throws for this socket.
Break(ws) ==
    /\ wsState[ws] = "open"
    /\ ws \notin broken
    /\ broken' = broken \cup {ws}
    /\ UNCHANGED <<rows, connections, wsState, sub, sent, calls, emit, jwt, query, boot>>

(***************************************************************************)
(* LabelerServer.create.  A DID given in the options is the sequence of    *)
(* its characters; a signing key given in the options is its encoding and  *)
(* the number of bytes it decodes to.                                      *)
(***************************************************************************)
INVALID_DID_ERROR == "Make sure to provide a valid DID using either did:plc or did:web methods."
INVALID_SIGNING_KEY_ERROR == "Make sure to provide a private signing key, not a public key."
DB_TOKEN_ERROR == "The dbToken option is required when using a remote database URL."
PrivateKeyLen == 32

LowerCase ==
    {"a", "b", "c", "d", "e", "f", "g", "h", "i", "j", "k", "l", "m",
     "n", "o", "p", "q", "r", "s", "t", "u", "v", "w", "x", "y", "z"}
UpperCase ==
    {"A", "B", "C", "D", "E", "F", "G", "H", "I", "J", "K", "L", "M",
     "N", "O", "P", "Q", "R", "S", "T", "U", "V", "W", "X", "Y", "Z"}
DidIdChars == LowerCase \cup UpperCase \cup Range(Digits) \cup {".", "_", "-"}

StartsWith(str, pre) == Len(str) >= Len(pre) /\ SubSeq(str, 1, Len(pre)) = pre

\* isDid of @atcute/lexicons/syntax:
\* /^did:([a-z]+):([a-zA-Z0-9._:%-]*[a-zA-Z0-9._-])$/ (the bounds it puts
\* on the length, 7 to 2048, are met by every text of the model it matches)
isDid(str) ==
    /\ StartsWith(str, <<"d", "i", "d", ":">>)
    /\ \E j \in 6..(Len(str) - 1) :
          /\ str[j] = ":"
          /\ \A i \in 5..(j - 1) : str[i] \in LowerCase
          /\ \A i \in (j + 1)..Len(str) : str[i] \in DidIdChars \cup {":", "%"}
          /\ str[Len(str)] \in DidIdChars

\* parsePrivateKey: the bytes of a key given as hex or base64
parsePrivateKey(key) ==
    IF key.encoding \in {"hex", "base64"} THEN Ok([byteLength |-> key.byteLength])
    ELSE ThrowError

Routes ==
    {"GET /xrpc/com.atproto.label.queryLabels", "POST /xrpc/tools.ozone.moderation.emitEvent",
     "GET /xrpc/com.atproto.label.subscribeLabels", "GET /xrpc/_health", "GET /xrpc/*"}

\* new LabelerServer(context): createClient, initializeDatabase, the routes
Construct(context) ==
    [ok |-> TRUE,
     server |-> [did |-> context.did, signingKey |-> context.signingKey,
                 db |-> context.databaseConfig, routes |-> Routes]]

CreateError(message) == [ok |-> FALSE, err |-> "Error", message |-> message]

DatabaseConfig(options) ==
    IF "dbUrl" \in DOMAIN options
    THEN IF "dbToken" \notin DOMAIN options THEN CreateError(DB_TOKEN_ERROR)
         ELSE Ok([url |-> options.dbUrl, authToken |-> options.dbToken])
    ELSE Ok([url |-> [scheme |-> "file:",
                      path |-> IF "dbPath" \in DOMAIN options THEN options.dbPath
                               ELSE "labels.db"]])

\* static async create(options)
create(options) ==
    IF ~isDid(options.did) THEN CreateError(INVALID_DID_ERROR)
    ELSE IF options.signingKey.encoding = DID_KEY_PREFIX THEN CreateError(INVALID_SIGNING_KEY_ERROR)
    ELSE IF ~parsePrivateKey(options.signingKey).ok THEN CreateError(INVALID_SIGNING_KEY_ERROR)
    ELSE IF parsePrivateKey(options.signingKey).val.byteLength # PrivateKeyLen
    THEN CreateError(INVALID_SIGNING_KEY_ERROR)
    ELSE IF ~DatabaseConfig(options).ok THEN DatabaseConfig(options)
    ELSE Construct([did |-> options.did,
                    signingKey |-> parsePrivateKey(options.signingKey).val,
                    databaseConfig |-> DatabaseConfig(options).val])

PlcDid == <<"d", "i", "d", ":", "p", "l", "c", ":", "a", "b">>

DidInputs ==
    {PlcDid,
     <<"d", "i", "d", ":", "w", "e", "b", ":", "a", ".", "b">>,
     <<"d", "i", "d", ":", "k", "e", "y", ":", "z", "Q", "3">>,
     <<"d", "i", "d", ":", "x", ":", "y">>,
     <<"d", "i", "d", ":", "P", "L", "C", ":", "a", "b">>,
     <<"d", "i", "d", ":", "p", "l", "c", ":">>,
     <<"p", "l", "c", ":", "a", "b">>,
     <<"a", "b">>}

KeyLengths == {PrivateKeyLen - 1, PrivateKeyLen, PrivateKeyLen + 1}

KeyInputs ==
    {[encoding |-> e, byteLength |-> n] : e \in {"hex", "base64"}, n \in KeyLengths}
    \cup {[encoding |-> DID_KEY_PREFIX, byteLength |-> CompressedLen + 2]}

CreateOptions ==
    UNION {{[did |-> did, signingKey |-> key],
            [did |-> did, signingKey |-> key, dbPath |-> "my.db"],
            [did |-> did, signingKey |-> key, dbUrl |-> "libsql://db", dbToken |-> "token"],
            [did |-> did, signingKey |-> key, dbUrl |-> "libsql://db"]} :
              did \in DidInputs, key \in KeyInputs}

NotBooted == [called |-> FALSE]

\* The server of the other specifications: created, its schema initialized
Booted ==
    [called |-> TRUE,
     init |-> "ready",
     wal |-> TRUE,
     start |-> "none",
     options |-> [did |-> PlcDid, signingKey |-> [encoding |-> "hex", byteLength |-> PrivateKeyLen]],
     result |-> create([did |-> PlcDid,
                        signingKey |-> [encoding |-> "hex", byteLength |-> PrivateKeyLen]])]

Create(options) ==
    /\ boot' = [called |-> TRUE, options |-> options, result |-> create(options)]
    /\ UNCHANGED <<serverVars, emit, jwt, query>>

Idle == [k \in {"idle"} |-> TRUE]

InitServer ==
    /\ rows = <<>>
    /\ connections = EmptyMap
    /\ wsState = [ws \in Sockets |-> "none"]
    /\ broken = {}
    /\ sub = [ws \in Sockets |-> NoSub]
    /\ sent = [ws \in Sockets |-> <<>>]
    /\ calls = [c \in Calls |-> NoCall]
    /\ boot = Booted

Init ==
    /\ InitServer
    /\ emit = Idle
    /\ jwt = Idle
    /\ query = Idle

Next ==
    \/ \E c \in Callers, data \in StreamLabelData : CreateLabel(c, data, "direct")
    \/ \E c \in Callers : DbInsert(c)
    \/ \E c \in Callers : SaveLabelResume(c)
    \/ \E ws \in Sockets, cursorStr \in SubCursors : SubscribeLabels(ws, cursorStr)
    \/ \E ws \in Sockets : DbMaxId(ws)
    \/ \E ws \in Sockets : SubAfterLatest(ws)
    \/ \E ws \in Sockets : DbReplay(ws)
    \/ \E ws \in Sockets : SubAfterReplay(ws)
    \/ \E ws \in Sockets : Close(ws)
    \/ \E ws \in Sockets : Break(ws)

Spec == Init /\ [][Next]_vars

(***************************************************************************)
(* The write path with scans of the whole log (subscribers that replay     *)
(* from cursor 0).                                                         *)
(***************************************************************************)
Scanners == 1..MaxScans

NextLog ==
    \/ \E c \in Callers, data \in StreamLabelData : CreateLabel(c, data, "direct")
    \/ \E c \in Callers : DbInsert(c)
    \/ \E c \in Callers : SaveLabelResume(c)
    \/ \E ws \in Scanners : SubscribeLabels(ws, <<"0">>)
    \/ \E ws \in Scanners : DbMaxId(ws)
    \/ \E ws \in Scanners : SubAfterLatest(ws)
    \/ \E ws \in Scanners : DbReplay(ws)
    \/ \E ws \in Scanners : SubAfterReplay(ws)

SpecLog == Init /\ [][NextLog]_vars

(***************************************************************************)
(* What a subscriber was sent.                                             *)
(***************************************************************************)
IsMessage(e) == e.frame[1].cbor.op = 1
IsError(e) == e.frame[1].cbor.op = -1
SeqOf(e) == e.frame[2].cbor.seq

MessageIdx(ws) == {i \in DOMAIN sent[ws] : IsMessage(sent[ws][i])}
MessageSeqs(ws) == {SeqOf(sent[ws][i]) : i \in MessageIdx(ws)}

JoinedWithCursor(ws) ==
    /\ sub[ws].pc = "live"
    /\ ~sub[ws].cursor.isNaN
    /\ sub[ws].cursor.val <= sub[ws].latest

FutureCursor(ws) ==
    /\ sub[ws].pc \in {"awaitReplay", "gotReplay", "live"}
    /\ ~sub[ws].cursor.isNaN
    /\ sub[ws].cursor.val > sub[ws].latest

NoEmitPending == \A c \in Calls : calls[c].pc # "inserted"

RowWithId(n) == rows[CHOOSE i \in DOMAIN rows : rows[i].id = n]

Emits(c) == calls[c].pc = "inserted" /\ calls'[c].pc # "inserted"

(***************************************************************************)
(* C1: no-gap replay.  A subscriber that joined with an integer cursor     *)
(* c <= max id, whose socket is open and none of whose sends failed, has   *)
(* been sent no id twice, and once every committed label has been          *)
(* broadcast it has been sent exactly the ids of the stored labels         *)
(* greater than c.                                                         *)
(***************************************************************************)
C1_NoGapNoOverlap ==
    \A ws \in Sockets :
        (JoinedWithCursor(ws) /\ wsState[ws] = "open" /\ broken = {}) =>
            /\ \A i, j \in MessageIdx(ws) :
                  i # j => SeqOf(sent[ws][i]) # SeqOf(sent[ws][j])
            /\ NoEmitPending =>
                  MessageSeqs(ws) = {n \in RowIds(rows) : n > sub[ws].cursor.val}

(***************************************************************************)
(* C2: for every subscriber the seq values of the message frames sent to   *)
(* it are strictly increasing, and no replay frame follows a live frame.   *)
(***************************************************************************)
C2_StrictlyAscending ==
    \A ws \in Sockets :
        \A i, j \in MessageIdx(ws) :
            i < j => /\ SeqOf(sent[ws][i]) < SeqOf(sent[ws][j])
                     /\ ~(sent[ws][i].via = "live" /\ sent[ws][j].via = "replay")

(***************************************************************************)
(* C3: no two stored labels share an id; ids strictly increase with        *)
(* insertion order; a write that completed before another started has the  *)
(* smaller id; a scan from 0 returns the log in that order.                *)
(***************************************************************************)
C3_Monotonic ==
    /\ \A i, j \in DOMAIN rows : i < j => rows[i].id < rows[j].id
    /\ \A c \in Calls :
          calls[c].pc \in {"inserted", "done", "threw"} =>
              \A n \in calls[c].doneBefore : n < calls[c].id
    /\ SelectAfter(rows, 0) = rows
    /\ \A ws \in Sockets :
          sub[ws].pc = "gotReplay" =>
              /\ \A i, j \in DOMAIN sub[ws].replay :
                    i < j => sub[ws].replay[i].id < sub[ws].replay[j].id
              /\ sub[ws].replay = SubSeq(rows, 1, Len(sub[ws].replay))

\* Two writes, the first completed before the second started, and a scan
\* from 0 that returned both.
C3_Witness ==
    \E c, d \in Calls :
        /\ calls[c].pc = "done"
        /\ calls[d].pc = "done"
        /\ calls[c].id \in calls[d].doneBefore
        /\ \E ws \in Sockets :
              /\ sub[ws].pc = "gotReplay"
              /\ {calls[c].id, calls[d].id} \subseteq RowIds(sub[ws].replay)

(***************************************************************************)
(* C4: a subscriber whose integer cursor is greater than the max id is     *)
(* sent exactly one frame, the FutureCursor error frame, is terminated, is *)
(* never in the live set and is sent no message frame.                     *)
(***************************************************************************)
C4_FutureCursorRejected ==
    \A ws \in Sockets :
        FutureCursor(ws) =>
            /\ Len(sent[ws]) = 1
            /\ IsError(sent[ws][1])
            /\ sent[ws][1].frame[2].cbor.error = "FutureCursor"
            /\ wsState[ws] # "open"
            /\ ws \notin LiveSet(connections)

(***************************************************************************)
(* C5: when the label with id n is broadcast, every subscriber in the live *)
(* set (whose send does not throw) is sent exactly one more frame, the     *)
(* message frame with header {op: 1, t: "#labels"} and body seq = n,       *)
(* labels = [that label], the same bytes for all.                          *)
(***************************************************************************)
C5_BroadcastToAll ==
    [][\A c \in Calls :
          Emits(c) =>
              \A ws \in LiveSet(connections) \ broken :
                  /\ Len(sent'[ws]) = Len(sent[ws]) + 1
                  /\ sent'[ws][Len(sent'[ws])].frame =
                        <<[cbor |-> [op |-> 1, t |-> "#labels"]],
                          [cbor |-> [seq |-> calls[c].id,
                                     labels |-> <<formatLabel(RowToLabel(RowWithId(calls[c].id)))>>]]>>
      ]_vars

(***************************************************************************)
(* C6: if the send to one subscriber throws during a broadcast, every      *)
(* other subscriber registered at that moment is still sent the frame, and *)
(* the failing subscriber is removed from the live set.                    *)
(***************************************************************************)
C6_FailureIsolated ==
    [][\A c \in Calls :
          (Emits(c) /\ LiveSet(connections) \cap broken # {}) =>
              /\ \A ws \in LiveSet(connections) \ broken :
                    /\ Len(sent'[ws]) = Len(sent[ws]) + 1
                    /\ SeqOf(sent'[ws][Len(sent'[ws])]) = calls[c].id
              /\ \E ws \in LiveSet(connections) \cap broken :
                    ws \notin LiveSet(connections')
      ]_vars

(***************************************************************************)
(* verifyJwt against a DID directory.  jwt holds the signing-key cache,    *)
(* the documents the directory serves, the private key behind each         *)
(* published document, the clock (ms) and the last call with its result.   *)
(***************************************************************************)
EMIT_NSID == "tools.ozone.moderation.emitEvent"

AliceKey == PrivateKey("k256", 1)
BobKey == PrivateKey("p256", 2)
NewKey == PrivateKey("k256", 3)
IssuerKeys == {AliceKey, BobKey, NewKey}
Issuers == {AliceDid, BobDid}

TickMs == CACHE_TTL_MS \div 2

MultikeyDoc(did, priv) ==
    Document(<<VerificationMethod(did, "Multikey",
        KeyString("", BASE58_MULTIBASE_PREFIX,
            (IF priv.curve = "p256" THEN P256_DID_PREFIX ELSE SECP256K1_DID_PREFIX)
                \o PublicKeyBytes(priv)))>>)

LegacyDoc(did, priv) ==
    Document(<<VerificationMethod("",
        IF priv.curve = "p256" THEN "EcdsaSecp256r1VerificationKey2019"
        ELSE "EcdsaSecp256k1VerificationKey2019",
        KeyString("", BASE58_MULTIBASE_PREFIX, PublicKeyBytes(priv)))>>)

DocsOf(did, priv) == {MultikeyDoc(did, priv), LegacyDoc(did, priv)}

\* header.payload.signature, signed with the private key
SignJwt(priv, header, payload) ==
    <<header, payload, [signer |-> priv, over |-> sha256(<<header, payload>>)]>>

JwtHeader(priv) ==
    [typ |-> "JWT", alg |-> IF priv.curve = "p256" THEN P256_JWT_ALG ELSE SECP256K1_JWT_ALG]

JwtPayloads ==
    {[iss |-> iss, aud |-> aud, exp |-> exp, lxm |-> EMIT_NSID] :
        iss \in Issuers, aud \in {LabelerDid, AliceDid},
        exp \in {TickMs \div 2000, CACHE_TTL_MS}}
    \cup {[iss |-> iss, aud |-> LabelerDid, exp |-> CACHE_TTL_MS] : iss \in Issuers}
    \cup {[iss |-> iss, aud |-> LabelerDid, exp |-> CACHE_TTL_MS, lxm |-> SUBSCRIBE_NSID] :
            iss \in Issuers}
    \cup {[iss |-> AliceDid, aud |-> AliceDid, exp |-> CACHE_TTL_MS, lxm |-> SUBSCRIBE_NSID],
          [iss |-> AliceDid, aud |-> LabelerDid, exp |-> TickMs \div 2000, lxm |-> SUBSCRIBE_NSID]}
    \cup {[iss |-> AliceDid, aud |-> LabelerDid]}

JwtStrings ==
    {SignJwt(priv, JwtHeader(priv), payload) : priv \in IssuerKeys, payload \in JwtPayloads}
    \cup {<<JwtHeader(AliceKey), [iss |-> AliceDid, aud |-> LabelerDid, exp |-> CACHE_TTL_MS]>>,
          SignJwt(AliceKey, JwtHeader(AliceKey), NotJson)}

NoJwtCall == [called |-> FALSE]

InitJwtWith(aliceDocs, bobDocs) ==
    \E da \in aliceDocs, db \in bobDocs :
        jwt = [cache |-> EmptyMap,
               directory |-> [did \in Issuers |-> IF did = AliceDid THEN da ELSE db],
               published |-> [did \in Issuers |-> IF did = AliceDid THEN AliceKey ELSE BobKey],
               now |-> TickMs,
               last |-> NoJwtCall]

InitJwt == InitJwtWith(DocsOf(AliceDid, AliceKey), DocsOf(BobDid, BobKey) \cup {NotFound})

VerifyJwt(jwtStr, ownDid, lxm) ==
    /\ LET out == verifyJwt(jwtStr, ownDid, lxm, jwt.cache, jwt.directory, jwt.now)
       IN  jwt' = [jwt EXCEPT !.cache = out.cache,
                              !.last = [called |-> TRUE, jwtStr |-> jwtStr, ownDid |-> ownDid,
                                        lxm |-> lxm, res |-> out.res, now |-> jwt.now,
                                        directory |-> jwt.directory,
                                        published |-> jwt.published]]
    /\ UNCHANGED <<serverVars, emit, query, boot>>

\* The issuer rotates its signing key and republishes its document.
RotateKey(did, doc) ==
    /\ jwt.published[did] # NewKey
    /\ doc \in DocsOf(did, NewKey)
    /\ jwt' = [jwt EXCEPT !.directory[did] = doc, !.published[did] = NewKey]
    /\ UNCHANGED <<serverVars, emit, query, boot>>

Tick ==
    /\ jwt.now < MaxTicks * TickMs
    /\ jwt' = [jwt EXCEPT !.now = @ + TickMs]
    /\ UNCHANGED <<serverVars, emit, query, boot>>

NextJwt ==
    \/ \E jwtStr \in JwtStrings : VerifyJwt(jwtStr, LabelerDid, EMIT_NSID)
    \/ \E did \in Issuers : \E doc \in DocsOf(did, NewKey) : RotateKey(did, doc)
    \/ Tick

InitJwtSpec == InitServer /\ InitJwt /\ emit = Idle /\ query = Idle

SpecJwt == InitJwtSpec /\ [][NextJwt]_vars

(***************************************************************************)
(* C8: verifyJwt returns the payload for every well-formed JWT that is     *)
(* unexpired, whose aud is the expected audience, whose lxm is the         *)
(* expected method and whose signature was made over header.payload with   *)
(* the key published for its iss at the time of the call (secp256k1 or     *)
(* P-256).                                                                 *)
(***************************************************************************)
ValidJwt(call) ==
    /\ Len(call.jwtStr) = 3
    /\ {"iss", "aud", "exp", "lxm"} \subseteq DOMAIN call.jwtStr[2]
    /\ call.now \div 1000 < call.jwtStr[2].exp
    /\ call.jwtStr[2].aud = call.ownDid
    /\ call.jwtStr[2].lxm = call.lxm
    /\ call.directory[call.jwtStr[2].iss].found
    /\ call.jwtStr[3].signer = call.published[call.jwtStr[2].iss]
    /\ call.jwtStr[3].over = sha256(<<call.jwtStr[1], call.jwtStr[2]>>)

C8_ValidJwtAccepted ==
    (jwt.last.called /\ ValidJwt(jwt.last)) =>
        /\ jwt.last.res.ok
        /\ jwt.last.res.val = jwt.last.jwtStr[2]

(***************************************************************************)
(* tools.ozone.moderation.emitEvent.  emit holds the auth hook (the DIDs   *)
(* it returns true for), the request in progress or last answered, what    *)
(* verifyJwt was called with and returned, the labels still to create and  *)
(* the response.                                                           *)
(***************************************************************************)
MOD_EVENT_LABEL == "tools.ozone.moderation.defs#modEventLabel"
REPO_REF == "com.atproto.admin.defs#repoRef"
STRONG_REF == "com.atproto.repo.strongRef"

\* (req.originalUrl || req.url).split("?")[0].replace("/xrpc/", "").replace(/\/$/, "")
UrlNsid(url) == url.nsid

NoAuthCall == [called |-> FALSE]

\* parseAuthHeaderDid after verifyJwt: payload.iss, or the error thrown
Authenticated(out, token, nsid) ==
    [res |-> IF out.res.ok THEN Ok(out.res.val.iss) ELSE out.res,
     cache |-> out.cache,
     auth |-> [called |-> TRUE, jwtStr |-> token, ownDid |-> LabelerDid,
               lxm |-> nsid, res |-> out.res]]

parseAuthHeaderDid(req, cache, directory, now) ==
    IF req.authorization = <<>>
    THEN [res |-> Throw(401, "AuthRequired"), cache |-> cache, auth |-> NoAuthCall]
    ELSE IF req.authorization[1] # "Bearer" \/ Len(req.authorization) < 2
    THEN [res |-> Throw(400, "MissingJwt"), cache |-> cache, auth |-> NoAuthCall]
    ELSE Authenticated(verifyJwt(req.authorization[2], LabelerDid, UrlNsid(req.url),
                                 cache, directory, now),
                       req.authorization[2], UrlNsid(req.url))

\* a string field of the body; undefined reads as the empty string
Field(rec, field) == IF field \in DOMAIN rec THEN rec[field] ELSE <<>>

Length(body, field) == IF field \in DOMAIN body THEN Len(body[field]) ELSE 0

\* The body checks of emitEventHandler: the labels to create, or the error.
emitEventLabels(body) ==
    IF ~({"event", "subject", "createdBy"} \subseteq DOMAIN body)
    THEN Throw(400, "InvalidRequest")
    ELSE IF body.event.type # MOD_EVENT_LABEL THEN Throw(400, "InvalidRequest")
    ELSE IF Length(body.event, "createLabelVals") = 0 /\ Length(body.event, "negateLabelVals") = 0
    THEN Throw(400, "InvalidRequest")
    ELSE LET uri == IF body.subject.type = REPO_REF THEN Field(body.subject, "did")
                    ELSE IF body.subject.type = STRONG_REF THEN Field(body.subject, "uri")
                    ELSE <<>>
             cid == IF body.subject.type = STRONG_REF /\ "cid" \in DOMAIN body.subject
                    THEN body.subject.cid ELSE ""
             labelSubject == IF cid # "" THEN [uri |-> uri, cid |-> cid] ELSE [uri |-> uri]
         IN  IF uri = <<>> THEN Throw(400, "InvalidRequest")
             ELSE Ok(createLabels(labelSubject,
                        [create |-> IF "createLabelVals" \in DOMAIN body.event
                                    THEN body.event.createLabelVals ELSE <<>>,
                         negate |-> IF "negateLabelVals" \in DOMAIN body.event
                                    THEN body.event.negateLabelVals ELSE <<>>]))

EmitUrl == [nsid |-> EMIT_NSID, query |-> ""]

EmitTokens ==
    {SignJwt(AliceKey, JwtHeader(AliceKey),
             [iss |-> AliceDid, aud |-> aud, exp |-> CACHE_TTL_MS, lxm |-> EMIT_NSID]) :
        aud \in {LabelerDid, AliceDid}}
    \cup {SignJwt(BobKey, JwtHeader(BobKey),
                   [iss |-> BobDid, aud |-> LabelerDid, exp |-> CACHE_TTL_MS, lxm |-> EMIT_NSID])}

EmitHeaders ==
    {<<>>, <<"Bearer">>} \cup {<<type, token>> : type \in {"Bearer", "Basic"}, token \in EmitTokens}

RepoSubject == [type |-> REPO_REF, did |-> <<"a">>]
StrongSubject == [type |-> STRONG_REF, uri |-> <<"b">>, cid |-> "bafy"]

EmitSubjects ==
    {RepoSubject, StrongSubject, [type |-> "com.atproto.admin.defs#repoBlobRef", did |-> <<"a">>]}

EmitEvents ==
    {[type |-> MOD_EVENT_LABEL, createLabelVals |-> <<"spam">>, negateLabelVals |-> <<"rude">>],
     [type |-> MOD_EVENT_LABEL, negateLabelVals |-> <<"rude">>],
     [type |-> MOD_EVENT_LABEL, createLabelVals |-> <<>>],
     [type |-> "tools.ozone.moderation.defs#modEventTag", createLabelVals |-> <<"spam">>]}

EmitBodies ==
    {[event |-> event, subject |-> RepoSubject, createdBy |-> AliceDid] : event \in EmitEvents}
    \cup {[event |-> [type |-> MOD_EVENT_LABEL, createLabelVals |-> <<"spam">>],
           subject |-> subject, createdBy |-> AliceDid] : subject \in EmitSubjects}
    \cup {[subject |-> RepoSubject, createdBy |-> AliceDid]}

EmitRequests ==
    {[authorization |-> h, url |-> EmitUrl, body |-> b] : h \in EmitHeaders, b \in EmitBodies}

AuthHooks == {{LabelerDid}, {AliceDid}}

InitEmit ==
    \E hook \in AuthHooks :
        emit = [kind |-> "emit", hook |-> hook, phase |-> "idle", todo |-> <<>>, cur |-> 0, created |-> <<>>,
                resp |-> NoResp]

\* emitEventHandler after parseAuthHeaderDid, up to the first createLabel
\* or up to the error response
EmitAnswer(req, parsed, authed, labels) ==
    /\ jwt' = [jwt EXCEPT !.cache = parsed.cache]
    /\ emit' = IF parsed.res.ok /\ authed /\ labels.ok
               THEN [kind |-> "emit", hook |-> emit.hook, phase |-> "creating", req |-> req,
                     auth |-> parsed.auth, authed |-> authed,
                     todo |-> labels.val, cur |-> 0, created |-> <<>>,
                     resp |-> NoResp]
               ELSE [kind |-> "emit", hook |-> emit.hook, phase |-> "responded", req |-> req,
                     auth |-> parsed.auth, authed |-> authed,
                     todo |-> <<>>, cur |-> 0, created |-> <<>>,
                     resp |-> errorHandler(IF ~parsed.res.ok THEN parsed.res
                                           ELSE IF ~authed THEN Throw(401, "AuthRequired")
                                           ELSE labels)]

\* emitEventHandler from "const authed = await this.auth(actorDid)" on
EmitAuthed(req, parsed) ==
    EmitAnswer(req, parsed, parsed.res.ok /\ parsed.res.val \in emit.hook,
               emitEventLabels(req.body))

EmitEvent(req) ==
    /\ emit.phase # "creating"
    /\ EmitAuthed(req, parseAuthHeaderDid(req, jwt.cache, jwt.directory, jwt.now))
    /\ UNCHANGED <<serverVars, query, boot>>

\* The createLabel calls that may start: any by the operator, and the
\* handler's next one.
EmitDrafts ==
    {[kind |-> "direct", data |-> data] : data \in StreamLabelData}
    \cup (IF emit.phase = "creating" /\ emit.todo # <<>>
          THEN {[kind |-> "emit", data |-> Head(emit.todo)]} ELSE {})

NextEmit ==
    \/ \E req \in EmitRequests : EmitEvent(req)
    \/ \E c \in Callers : \E draft \in EmitDrafts : CreateLabel(c, draft.data, draft.kind)
    \/ \E c \in Callers : DbInsert(c)
    \/ \E c \in Callers : SaveLabelResume(c)
    \/ \E ws \in Scanners : SubscribeLabels(ws, <<>>)

InitEmitSpec ==
    /\ InitServer
    /\ InitJwtWith(DocsOf(AliceDid, AliceKey), {NotFound})
    /\ InitEmit
    /\ query = Idle

SpecEmit == InitEmitSpec /\ [][NextEmit]_vars

(***************************************************************************)
(* C7: a label is created for an emitEvent request only if the request     *)
(* carried "Bearer <token>", verifyJwt accepted the token for the          *)
(* labeler's DID and the emitEvent method and the auth hook returned true  *)
(* for its iss.  A request without the header is answered 401              *)
(* AuthRequired, one whose header is not "Bearer <token>" 400 MissingJwt,  *)
(* one with a valid token whose issuer the hook refuses 401 AuthRequired;  *)
(* answering these leaves the log, the writes in progress and every        *)
(* subscriber's stream unchanged.                                          *)
(***************************************************************************)
IsBearer(header) == Len(header) = 2 /\ header[1] = "Bearer"

\* What verifyJwt is to be called with for the request of emit
EmitCall ==
    [jwtStr |-> emit.req.authorization[2], ownDid |-> LabelerDid, lxm |-> EMIT_NSID,
     now |-> jwt.now, directory |-> jwt.directory, published |-> jwt.published]

\* The request of emit carries a valid token of an issuer the hook refuses
HookRefuses ==
    /\ IsBearer(emit.req.authorization)
    /\ ValidJwt(EmitCall)
    /\ emit.req.authorization[2][2].iss \notin emit.hook

Refused(e) ==
    /\ e.phase = "responded"
    /\ \/ ~IsBearer(e.req.authorization)
       \/ ~e.auth.res.ok
       \/ e.auth.res.val.iss \notin e.hook

EmitGate ==
    /\ \A c \in Calls :
          calls[c].origin.kind = "emit" =>
              /\ IsBearer(calls[c].origin.req.authorization)
              /\ calls[c].origin.auth.called
              /\ calls[c].origin.auth.jwtStr = calls[c].origin.req.authorization[2]
              /\ calls[c].origin.auth.ownDid = LabelerDid
              /\ calls[c].origin.auth.lxm = EMIT_NSID
              /\ calls[c].origin.auth.res.ok
              /\ calls[c].origin.auth.res.val.iss \in emit.hook
    /\ emit.phase = "responded" =>
          /\ emit.req.authorization = <<>> =>
                emit.resp = [status |-> 401, error |-> "AuthRequired"]
          /\ (emit.req.authorization # <<>> /\ ~IsBearer(emit.req.authorization)) =>
                emit.resp = [status |-> 400, error |-> "MissingJwt"]
          /\ HookRefuses => emit.resp = [status |-> 401, error |-> "AuthRequired"]

C7_EmitRequiresAuth ==
    /\ []EmitGate
    /\ [][(emit' # emit /\ Refused(emit')) =>
            (rows' = rows /\ sent' = sent /\ calls' = calls)]_vars

(***************************************************************************)
(* com.atproto.label.queryLabels.  Strings are sequences of characters; an *)
(* absent query parameter is the empty sequence.                           *)
(***************************************************************************)
DefaultLimit == 50
MaxLimit == 250

Lower(ch) == CASE ch = "A" -> "a" [] ch = "B" -> "b" [] OTHER -> ch

\* SQLite's LIKE without an ESCAPE clause
RECURSIVE Like(_, _)
Like(str, pattern) ==
    IF pattern = <<>> THEN str = <<>>
    ELSE IF pattern[1] = "%"
         THEN \E k \in 0..Len(str) : Like(SubSeq(str, k + 1, Len(str)), Tail(pattern))
    ELSE IF str = <<>> THEN FALSE
    ELSE IF pattern[1] = "_" THEN Like(Tail(str), Tail(pattern))
    ELSE Lower(str[1]) = Lower(pattern[1]) /\ Like(Tail(str), Tail(pattern))

\* pattern.replaceAll(/%/g, "").replaceAll(/_/g, "\\_")
RECURSIVE EscapePattern(_)
EscapePattern(pattern) ==
    IF pattern = <<>> THEN <<>>
    ELSE IF pattern[1] = "%" THEN EscapePattern(Tail(pattern))
    ELSE IF pattern[1] = "_" THEN <<"\\", "_">> \o EscapePattern(Tail(pattern))
    ELSE <<pattern[1]>> \o EscapePattern(Tail(pattern))

\* indexOf("*"), 0-based, -1 when absent
IndexOfStar(str) ==
    IF \E i \in DOMAIN str : str[i] = "*"
    THEN (CHOOSE i \in DOMAIN str : str[i] = "*" /\ \A j \in 1..(i - 1) : str[j] # "*") - 1
    ELSE -1

TranslatePattern(uriPattern) ==
    LET pattern == EscapePattern(uriPattern)
        starIndex == IndexOfStar(pattern)
    IN  IF starIndex = -1 THEN Ok(pattern)
        ELSE IF starIndex # Len(pattern) - 1 THEN Throw(400, "InvalidRequest")
        ELSE Ok(SubSeq(pattern, 1, Len(pattern) - 1) \o <<"%">>)

\* The query parameters after parsing: the LIKE patterns, the sources, the
\* cursor and the limit, or the error thrown.
ParseQuery(q) ==
    LET cursor == ParseInt(IF q.cursor = <<>> THEN ToString10(0) ELSE q.cursor)
        limit == ParseInt(IF q.limit = <<>> THEN ToString10(DefaultLimit) ELSE q.limit)
        translated == [i \in DOMAIN q.uriPatterns |-> TranslatePattern(q.uriPatterns[i])]
    IN  IF cursor.isNaN THEN Throw(400, "InvalidRequest")
        ELSE IF limit.isNaN THEN Throw(400, "InvalidRequest")
        ELSE IF limit.val < 1 \/ limit.val > MaxLimit THEN Throw(400, "InvalidRequest")
        ELSE IF \E i \in DOMAIN q.uriPatterns : q.uriPatterns[i] = <<"*">>
             THEN Ok([patterns |-> <<>>, sources |-> q.sources,
                      cursor |-> cursor.val, limit |-> limit.val])
        ELSE IF \E i \in DOMAIN translated : ~translated[i].ok THEN Throw(400, "InvalidRequest")
        ELSE Ok([patterns |-> [i \in DOMAIN translated |-> translated[i].val],
                 sources |-> q.sources, cursor |-> cursor.val, limit |-> limit.val])

(***************************************************************************)
(* A WHERE clause is its terms in the order of the SQL text, each with the *)
(* connective written before it and its truth for the row; AND binds       *)
(* tighter than OR.                                                        *)
(***************************************************************************)
Term(conn, val) == [conn |-> conn, val |-> val]

EvalWhere(terms) ==
    \/ terms = <<>>
    \/ \E i \in DOMAIN terms :
          /\ i = 1 \/ terms[i].conn = "OR"
          /\ \A j \in i..Len(terms) :
                (\A k \in (i + 1)..j : terms[k].conn = "AND") => terms[j].val

SourceTerms(row, sources) ==
    IF Len(sources) > 0
    THEN <<Term("AND", \E i \in DOMAIN sources : row.src = sources[i])>>
    ELSE <<>>

CursorTerms(row, cursor) ==
    IF cursor # 0 THEN <<Term("AND", row.id > cursor)>> ELSE <<>>

\* WHERE 1 = 1 AND uri LIKE ? OR uri LIKE ? ... AND src IN (...) AND id > ?
WhereUnparenthesised(row, p) ==
    EvalWhere(<<Term("", TRUE)>>
              \o [i \in DOMAIN p.patterns |->
                    Term(IF i = 1 THEN "AND" ELSE "OR", Like(row.uri, p.patterns[i]))]
              \o SourceTerms(row, p.sources)
              \o CursorTerms(row, p.cursor))

\* WHERE (uri LIKE ? OR uri LIKE ? ...) AND src IN (...) AND id > ?
WhereConditions(row, p) ==
    EvalWhere((IF Len(p.patterns) > 0
               THEN <<Term("", \E i \in DOMAIN p.patterns : Like(row.uri, p.patterns[i]))>>
               ELSE <<>>)
              \o SourceTerms(row, p.sources)
              \o CursorTerms(row, p.cursor))

Take(seq, n) == SubSeq(seq, 1, IF n < Len(seq) THEN n ELSE Len(seq))

\* The object built from a result row, before formatLabel
QueryRow(row) ==
    LET label == RowToLabel(row)
    IN  [k \in DOMAIN label \cup {"id"} |-> IF k = "id" THEN row.id ELSE label[k]]

QueryResponseFirstId(result) ==
    [status |-> 200,
     cursor |-> IF result = <<>> THEN ToString10(0) ELSE ToString10(result[1].id),
     labels |-> [i \in DOMAIN result |-> formatLabel(QueryRow(result[i]))]]

QueryResponse(result) ==
    [status |-> 200,
     cursor |-> IF result = <<>> THEN ToString10(0)
                ELSE ToString10(result[Len(result)].id),
     labels |-> [i \in DOMAIN result |-> formatLabel(QueryRow(result[i]))]]

\* LabelerServer.ts (better-sqlite3) and util/sqlite.ts findLabels
findLabels(table, p) ==
    Take(OrderById(table, {i \in DOMAIN table : WhereUnparenthesised(table[i], p)}), p.limit)

queryLabelsHandlerSqlite(table, q) ==
    LET p == ParseQuery(q)
    IN  IF ~p.ok THEN errorHandler(p) ELSE QueryResponse(findLabels(table, p.val))

queryLabelsHandlerUnparenthesised(table, q) ==
    LET p == ParseQuery(q)
    IN  IF ~p.ok THEN errorHandler(p) ELSE QueryResponse(findLabels(table, p.val))

\* queryLabelsHandler (libsql)
queryLabelsHandler(table, q) ==
    LET p == ParseQuery(q)
    IN  IF ~p.ok THEN errorHandler(p)
        ELSE QueryResponse(Take(OrderById(table,
                {i \in DOMAIN table : WhereConditions(table[i], p.val)}), p.val.limit))

QueryLabelData ==
    {[uri |-> <<"a">>, val |-> "spam"],
     [uri |-> <<"b">>, val |-> "spam"],
     [uri |-> <<"a", "c">>, val |-> "spam", src |-> AliceDid]}

Query(uriPatterns, sources, cursor, limit) ==
    [uriPatterns |-> uriPatterns, sources |-> sources, cursor |-> cursor, limit |-> limit]

QueryPatterns == {<<>>, <<<<"a", "*">>>>, <<<<"a", "*">>, <<"b">>>>, <<<<"b">>, <<"a", "*">>>>, <<<<"*">>>>}
QuerySources == {<<>>, <<AliceDid>>}

FindQueries ==
    {Query(u, src, cur, lim) : u \in QueryPatterns \cup {<<<<"*", "a">>>>}, src \in QuerySources,
                               cur \in {<<>>, <<"1">>}, lim \in {<<>>, <<"1">>}}
    \cup {Query(<<>>, <<>>, <<"x">>, <<>>), Query(<<>>, <<>>, <<>>, <<"0">>)}

NoQuery == [called |-> FALSE]

\* The application awaits each createLabel before it calls the next.
Awaited(c) == \A d \in Calls : d < c => calls[d].pc \in {"done", "threw", "failed"}

\* The synchronous handler: the request, the response and the table it read.
QueryLabelsSqlite(q) ==
    /\ query' = [called |-> TRUE, q |-> q, table |-> rows,
                 resp |-> queryLabelsHandlerSqlite(rows, q)]
    /\ UNCHANGED <<serverVars, emit, jwt, boot>>

NextFind ==
    \/ \E c \in Writers, data \in QueryLabelData : Awaited(c) /\ CreateLabel(c, data, "direct")
    \/ \E c \in Writers : DbInsert(c)
    \/ \E c \in Writers : SaveLabelResume(c)
    \/ \E q \in FindQueries : QueryLabelsSqlite(q)

InitFind == InitServer /\ emit = Idle /\ jwt = Idle /\ query = NoQuery

SpecFind == InitFind /\ [][NextFind]_vars

(***************************************************************************)
(* C9: a queryLabels response holds, in ascending id order, exactly the    *)
(* first limit stored labels for which (uriPatterns is empty or contains   *)
(* "*", or the uri matches a pattern) and (sources is empty or src is in   *)
(* sources) and (cursor is 0 or id > cursor).                              *)
(***************************************************************************)
IsPrefix(pre, str) == Len(pre) <= Len(str) /\ SubSeq(str, 1, Len(pre)) = pre

MatchesPattern(uri, pattern) ==
    IF pattern # <<>> /\ pattern[Len(pattern)] = "*"
    THEN IsPrefix(SubSeq(pattern, 1, Len(pattern) - 1), uri)
    ELSE uri = pattern

Selected(row, uriPatterns, sources, cursor) ==
    /\ \/ uriPatterns = <<>>
       \/ \E i \in DOMAIN uriPatterns : uriPatterns[i] = <<"*">>
       \/ \E i \in DOMAIN uriPatterns : MatchesPattern(row.uri, uriPatterns[i])
    /\ sources = <<>> \/ \E i \in DOMAIN sources : row.src = sources[i]
    /\ cursor = 0 \/ row.id > cursor

SelectedIds(table, uriPatterns, sources, cursor) ==
    {table[i].id : i \in {j \in DOMAIN table : Selected(table[j], uriPatterns, sources, cursor)}}

RECURSIVE Ascending(_)
Ascending(ids) ==
    IF ids = {} THEN <<>>
    ELSE LET m == CHOOSE n \in ids : \A k \in ids : n <= k
         IN  <<m>> \o Ascending(ids \ {m})

NumberOr(str, default) == IF str = <<>> THEN default ELSE ParseInt(str).val

C9_QueryFilters ==
    (query.called /\ query.resp.status = 200) =>
        [i \in DOMAIN query.resp.labels |-> query.resp.labels[i].id]
            = Take(Ascending(SelectedIds(query.table, query.q.uriPatterns, query.q.sources,
                                         NumberOr(query.q.cursor, 0))),
                   NumberOr(query.q.limit, DefaultLimit))

(***************************************************************************)
(* Pagination of queryLabels (libsql handler): a client keeps uriPatterns, *)
(* sources and limit fixed, starts without a cursor and passes the cursor  *)
(* of each response to the next request until a response is empty, while   *)
(* labels are being created.                                               *)
(***************************************************************************)
PageQueries == {Query(u, src, <<>>, lim) : u \in QueryPatterns, src \in QuerySources,
                                           lim \in {<<"1">>, <<"2">>}}

InitPage ==
    \E q \in PageQueries :
        query = [phase |-> "paging", q |-> q, got |-> <<>>, pages |-> 0,
                 table |-> <<>>, grew |-> FALSE]

QueryPage ==
    /\ query.phase = "paging"
    /\ LET resp == queryLabelsHandler(rows, query.q)
       IN  query' = [phase |-> IF resp.labels = <<>> THEN "done" ELSE "paging",
                     q |-> [query.q EXCEPT !.cursor = resp.cursor],
                     got |-> query.got \o [i \in DOMAIN resp.labels |-> resp.labels[i].id],
                     pages |-> query.pages + 1,
                     table |-> rows,
                     grew |-> query.grew \/ (query.pages > 0 /\ rows # query.table)]
    /\ UNCHANGED <<serverVars, emit, jwt, boot>>

NextPage ==
    \/ \E c \in Writers, data \in QueryLabelData : Awaited(c) /\ CreateLabel(c, data, "direct")
    \/ \E c \in Writers : DbInsert(c)
    \/ \E c \in Writers : SaveLabelResume(c)
    \/ QueryPage

InitPageSpec == InitServer /\ emit = Idle /\ jwt = Idle /\ InitPage

SpecPage == InitPageSpec /\ [][NextPage]_vars

(***************************************************************************)
(* C10: the ids collected by the pagination are strictly ascending, are    *)
(* ids of matching labels, skip no matching label below the last collected *)
(* id and, when the empty response arrives, are the ids of all matching    *)
(* labels stored at that moment.                                           *)
(***************************************************************************)
C10_Pagination ==
    LET want(table) == SelectedIds(table, query.q.uriPatterns, query.q.sources, 0)
        got == query.got
    IN  /\ \A i, j \in DOMAIN got : i < j => got[i] < got[j]
        /\ Range(got) \subseteq want(query.table)
        /\ \A n \in want(query.table) : (got # <<>> /\ n <= got[Len(got)]) => n \in Range(got)
        /\ query.phase = "done" => Range(got) = want(query.table)

\* A pagination of three pages or more ended, with a label appended between
\* two pages, a label collected from a later page and a stored label that
\* does not match.
C10_Witness ==
    /\ query.phase = "done"
    /\ query.pages >= 3
    /\ query.grew
    /\ Len(query.got) >= 2
    /\ RowIds(query.table) # Range(query.got)

(***************************************************************************)
(* Single queryLabels requests against the libsql handler while the        *)
(* application creates labels.  query holds the last request, the table    *)
(* the handler read (when it got as far as the SELECT) and the response.   *)
(***************************************************************************)
QueryRequests ==
    {Query(u, <<>>, <<>>, <<>>) :
        u \in QueryPatterns \cup {<<<<"*", "a">>>>, <<<<"a">>, <<"*", "a">>>>,
                                  <<<<"*">>, <<"*", "a">>>>, <<<<"*", "%">>>>}}
    \cup {Query(<<>>, <<>>, <<>>, lim) :
            lim \in {<<"1">>, <<"2">>, <<"0">>, <<"2", "5", "0">>, <<"2", "5", "1">>,
                     <<"-", "1">>, <<"x">>, <<"2", "x">>, <<"1", ".", "5">>}}
    \cup {Query(<<>>, <<>>, cur, <<>>) :
            cur \in {<<"0">>, <<"1">>, <<"2">>, <<"x">>, <<"1", "x">>}}
    \cup {Query(<<<<"a", "*">>>>, <<>>, <<"1">>, <<"1">>),
          Query(<<>>, <<AliceDid>>, <<>>, <<"1">>)}

\* queryLabelsHandler: the request, whether db.execute was reached, the
\* table it read and the response sent.
QueryLabels(q) ==
    /\ query' = [called |-> TRUE, q |-> q, read |-> ParseQuery(q).ok, table |-> rows,
                 resp |-> queryLabelsHandler(rows, q)]
    /\ UNCHANGED <<serverVars, emit, jwt, boot>>

\* The labels the application creates: one of the labeler, one of alice
RequestLabelData == {data \in QueryLabelData : data.uri # <<"b">>}

NextQuery ==
    \/ \E c \in Writers, data \in RequestLabelData : Awaited(c) /\ CreateLabel(c, data, "direct")
    \/ \E c \in Writers : DbInsert(c)
    \/ \E c \in Writers : SaveLabelResume(c)
    \/ \E q \in QueryRequests : QueryLabels(q)

InitQuery == InitServer /\ emit = Idle /\ jwt = Idle /\ query = NoQuery

SpecQuery == InitQuery /\ [][NextQuery]_vars

\* The number a canonical decimal numeral stands for
RECURSIVE DecimalValue(_)
DecimalValue(str) ==
    IF str = <<>> THEN 0
    ELSE 10 * DecimalValue(SubSeq(str, 1, Len(str) - 1)) + DigitVal(str[Len(str)])

IsDecimalOf(str, n) ==
    /\ str # <<>>
    /\ \A i \in DOMAIN str : IsDigit(str[i])
    /\ Len(str) > 1 => str[1] # "0"
    /\ DecimalValue(str) = n

(***************************************************************************)
(* C11: the cursor of a queryLabels response is the decimal string of the  *)
(* id of the last label of the response, and it is "0" exactly when the    *)
(* response has no labels.                                                 *)
(***************************************************************************)
C11_CursorIsLastId ==
    (query.called /\ query.resp.status = 200) =>
        /\ query.resp.labels = <<>> <=> query.resp.cursor = <<"0">>
        /\ query.resp.labels # <<>> =>
              IsDecimalOf(query.resp.cursor, query.resp.labels[Len(query.resp.labels)].id)

\* A response of two labels or more that stops before the last stored label.
C11_Witness ==
    /\ query.called
    /\ query.resp.status = 200
    /\ Len(query.resp.labels) >= 2
    /\ query.resp.labels[Len(query.resp.labels)].id < MaxOf(RowIds(query.table))

(***************************************************************************)
(* C12: a queryLabels request in which some uriPattern has a "*" before    *)
(* its last character is answered 400 InvalidRequest, whatever its other   *)
(* patterns are, and the handler does not read the store for it.           *)
(***************************************************************************)
HasInnerStar(pattern) == \E i \in 1..(Len(pattern) - 1) : pattern[i] = "*"

C12_InnerStarRejected ==
    (query.called /\ \E i \in DOMAIN query.q.uriPatterns : HasInnerStar(query.q.uriPatterns[i])) =>
        /\ query.resp = [status |-> 400, error |-> "InvalidRequest"]
        /\ ~query.read

(***************************************************************************)
(* queryLabels with "%" and "_" in uriPatterns, over labels whose uris     *)
(* hold those characters.                                                  *)
(***************************************************************************)
LikeLabelData ==
    {[uri |-> <<"a">>, val |-> "spam"],
     [uri |-> <<"a", "_">>, val |-> "spam"],
     [uri |-> <<"a", "%", "c">>, val |-> "spam"]}

LikeRequests ==
    {Query(<<p>>, <<>>, <<>>, <<>>) :
        p \in {<<"a", "_">>, <<"a", "%", "c">>, <<"a", "_", "*">>, <<"a", "%", "*">>, <<"a", "*">>}}

NextLike ==
    \/ \E c \in Writers, data \in LikeLabelData : Awaited(c) /\ CreateLabel(c, data, "direct")
    \/ \E c \in Writers : DbInsert(c)
    \/ \E c \in Writers : SaveLabelResume(c)
    \/ \E q \in LikeRequests : QueryLabels(q)

SpecLike == InitQuery /\ [][NextLike]_vars

(***************************************************************************)
(* C13: "%" and "_" in a uriPattern stand for themselves: a pattern p      *)
(* holding one of them selects exactly the labels whose uri equals p, and  *)
(* p* exactly the labels whose uri starts with p.                          *)
(***************************************************************************)
HasLikeChar(pattern) == \E i \in DOMAIN pattern : pattern[i] \in {"%", "_"}

C13_LiteralPercentUnderscore ==
    (/\ query.called
     /\ query.resp.status = 200
     /\ \E i \in DOMAIN query.q.uriPatterns : HasLikeChar(query.q.uriPatterns[i])) =>
        [i \in DOMAIN query.resp.labels |-> query.resp.labels[i].id]
            = Ascending(SelectedIds(query.table, query.q.uriPatterns, <<>>, 0))

(***************************************************************************)
(* C14: queryLabels uses limit 50 when none is given, answers 400          *)
(* InvalidRequest to a limit that is not an integer in 1..250 and to a     *)
(* cursor that is not an integer, and otherwise returns at most limit      *)
(* labels.                                                                 *)
(***************************************************************************)
IsIntegerText(str) ==
    LET digits == IF str # <<>> /\ str[1] \in {"-", "+"} THEN Tail(str) ELSE str
    IN  digits # <<>> /\ \A i \in DOMAIN digits : IsDigit(digits[i])

IntegerValue(str) ==
    IF str[1] = "-" THEN 0 - DecimalValue(Tail(str))
    ELSE IF str[1] = "+" THEN DecimalValue(Tail(str))
    ELSE DecimalValue(str)

LimitGiven(q) == IF q.limit = <<>> THEN DefaultLimit ELSE IntegerValue(q.limit)

ValidLimit(q) ==
    q.limit = <<>> \/ (IsIntegerText(q.limit) /\ IntegerValue(q.limit) \in 1..MaxLimit)

ValidCursor(q) == q.cursor = <<>> \/ IsIntegerText(q.cursor)

C14_LimitAndCursorChecked ==
    query.called =>
        IF ValidLimit(query.q) /\ ValidCursor(query.q)
        THEN query.resp.status = 200 => Len(query.resp.labels) <= LimitGiven(query.q)
        ELSE query.resp = [status |-> 400, error |-> "InvalidRequest"]

(***************************************************************************)
(* Signing.  The application creates labels one after the other from       *)
(* drafts with and without cid, exp, neg and sig, while a subscriber       *)
(* replays the log and stays live and clients query it.                    *)
(***************************************************************************)
OtherKey == PrivateKey("k256", 7)

\* A signature the caller made, over whatever it chose to sign
ForeignSig == k256Sign(OtherKey, cborEncode([val |-> "other"]))

SignLabelData ==
    {[uri |-> <<"a">>, val |-> "spam", neg |-> TRUE, cid |-> "bafy", exp |-> "later"],
     [uri |-> <<"a">>, val |-> "spam", cid |-> "", src |-> AliceDid],
     [uri |-> <<"a">>, val |-> "spam", cid |-> Undefined, exp |-> Undefined, neg |-> FALSE],
     [uri |-> <<"a">>, val |-> "spam", sig |-> toBytes(ForeignSig)],
     [uri |-> <<"a">>, val |-> "spam", sig |-> [text |-> "sig"]]}

SignRequests == {Query(<<>>, <<>>, <<>>, <<>>), Query(<<>>, <<>>, <<"1">>, <<"1">>)}

\* The one subscriber
Reader == {1}

NextSign ==
    \/ \E c \in Callers, data \in SignLabelData : Awaited(c) /\ CreateLabel(c, data, "direct")
    \/ \E c \in Callers : DbInsert(c)
    \/ \E c \in Callers : SaveLabelResume(c)
    \/ \E ws \in Reader : SubscribeLabels(ws, <<"0">>)
    \/ \E ws \in Reader : DbMaxId(ws)
    \/ \E ws \in Reader : SubAfterLatest(ws)
    \/ \E ws \in Reader : DbReplay(ws)
    \/ \E ws \in Reader : SubAfterReplay(ws)
    \/ \E q \in SignRequests : QueryLabels(q)

SpecSign == InitQuery /\ [][NextSign]_vars

\* The labels that left the server: in message frames and in the last
\* queryLabels response.
FrameLabels ==
    UNION {UNION {Range(sent[ws][i].frame[2].cbor.labels) : i \in MessageIdx(ws)} :
              ws \in Sockets}

ResponseLabels ==
    IF query.called /\ query.resp.status = 200 THEN Range(query.resp.labels) ELSE {}

(***************************************************************************)
(* C15: every stored label has a signature, so has every label of a        *)
(* queryLabels response and of a subscription frame; a label is signed     *)
(* before its INSERT is issued and is stored before it is broadcast.       *)
(***************************************************************************)
C15_SignedBeforeVisible ==
    /\ \A i \in DOMAIN rows : isUint8Array(rows[i].sig)
    /\ \A label \in FrameLabels \cup ResponseLabels :
          "sig" \in DOMAIN label /\ isBytes(label.sig) /\ isUint8Array(fromBytes(label.sig))
    /\ \A c \in Calls :
          calls[c].pc = "insert" => ("sig" \in DOMAIN calls[c].signed
                                      /\ isUint8Array(calls[c].signed.sig))
    /\ \A ws \in Sockets : MessageSeqs(ws) \subseteq RowIds(rows)

\* A subscriber was sent a label in its replay and another one live, and a
\* query returned labels.
C15_Witness ==
    /\ \E ws \in Sockets :
          \E i, j \in MessageIdx(ws) : sent[ws][i].via = "replay" /\ sent[ws][j].via = "live"
    /\ ResponseLabels # {}

(***************************************************************************)
(* C16: the sig of every stored label is the signature made with the       *)
(* server's signing key over the encoding of that label's own fields       *)
(* (with ver and neg as formatted), whatever draft createLabel was given.  *)
(***************************************************************************)
\* The fields of a label other than sig
Unsigned(label) == [k \in DOMAIN label \ {"sig"} |-> label[k]]

SignedBytes(label) == cborEncode(formatLabelCbor(Unsigned(label)))

C16_SignedByServerKey ==
    \A i \in DOMAIN rows :
        rows[i].sig = k256Sign(SigningKey, SignedBytes(RowToLabel(rows[i])))

(***************************************************************************)
(* C17: a label returned by createLabel, by queryLabels or in a            *)
(* subscription frame has, apart from sig, exactly the fields that were    *)
(* encoded and signed when the server signed it: encoding them again       *)
(* gives the bytes the stored signature was made over.                     *)
(***************************************************************************)
\* Every label that left the server, with the id it left under
ReturnedLabels ==
    {[id |-> calls[c].id, label |-> calls[c].returned] :
        c \in {d \in Calls : calls[d].pc = "done"}}
    \cup UNION {{[id |-> SeqOf(sent[ws][i]), label |-> sent[ws][i].frame[2].cbor.labels[1]] :
                    i \in MessageIdx(ws)} : ws \in Sockets}
    \cup {[id |-> label.id, label |-> label] : label \in ResponseLabels}

C17_SignedFieldsRoundTrip ==
    \A r \in ReturnedLabels :
        RowWithId(r.id).sig.signer = SigningKey =>
            sha256(cborEncode(Unsigned(r.label))) = RowWithId(r.id).sig.over

(***************************************************************************)
(* createLabels called by the application.  emit holds the call: its       *)
(* arguments, the drafts still to create, the createLabel call awaited and *)
(* the labels collected; other createLabel calls and queries go on         *)
(* meanwhile.                                                              *)
(***************************************************************************)
LabelSubjects == {[uri |-> <<"a">>], [uri |-> <<"b">>, cid |-> "bafy"]}

LabelLists ==
    {[create |-> <<>>, negate |-> <<>>],
     [create |-> <<"spam">>, negate |-> <<>>],
     [create |-> <<>>, negate |-> <<"spam">>],
     [create |-> <<"spam">>, negate |-> <<"rude">>]}

NoLabelsCall ==
    [kind |-> "labels", phase |-> "idle", todo |-> <<>>, cur |-> 0, created |-> <<>>]

CreateLabels(subject, labels) ==
    /\ DbInitLockResolved
    /\ emit.phase = "idle"
    /\ emit' = [kind |-> "labels",
                phase |-> IF createLabels(subject, labels) = <<>> THEN "returned" ELSE "creating",
                subject |-> subject,
                labels |-> labels,
                todo |-> createLabels(subject, labels),
                cur |-> 0,
                created |-> <<>>,
                before |-> [rows |-> rows, sent |-> sent]]
    /\ UNCHANGED <<serverVars, jwt, query, boot>>

\* The next createLabel of the loops of createLabels
CreateNext(c) ==
    /\ emit.phase = "creating"
    /\ emit.todo # <<>>
    /\ CreateLabel(c, Head(emit.todo), "labels")

NextLabels ==
    \/ \E subject \in LabelSubjects, labels \in LabelLists : CreateLabels(subject, labels)
    \/ \E c \in Writers, data \in StreamLabelData : Awaited(c) /\ CreateLabel(c, data, "direct")
    \/ \E c \in Writers : CreateNext(c)
    \/ \E c \in Writers : DbInsert(c)
    \/ \E c \in Writers : SaveLabelResume(c)
    \/ \E ws \in Reader : SubscribeLabels(ws, <<>>)
    \/ QueryLabels(Query(<<>>, <<>>, <<>>, <<>>))

InitLabels == InitServer /\ emit = NoLabelsCall /\ jwt = Idle /\ query = NoQuery

SpecLabels == InitLabels /\ [][NextLabels]_vars

(***************************************************************************)
(* C18: createLabels(subject, {create, negate}) makes |create| + |negate|  *)
(* inserts and returns as many stored labels: one per create value in list *)
(* order with neg false, then one per negate value in list order with neg  *)
(* true, each with the subject's uri and cid and src the labeler's DID,    *)
(* with ids strictly increasing along the list whatever other createLabel  *)
(* calls do meanwhile; a query that returns a negating label shows neg     *)
(* true; with both lists empty it returns the empty list and neither       *)
(* writes nor broadcasts.                                                  *)
(***************************************************************************)
LabelsCalls == {c \in Calls : calls[c].origin.kind = "labels"}

Wanted(labels) ==
    [i \in 1..Len(labels.create) |-> [val |-> labels.create[i], neg |-> FALSE]]
    \o [i \in 1..Len(labels.negate) |-> [val |-> labels.negate[i], neg |-> TRUE]]

AsWanted(saved, want, subject) ==
    /\ saved.label.val = want.val
    /\ saved.label.neg = want.neg
    /\ saved.label.uri = subject.uri
    /\ IF "cid" \in DOMAIN subject
       THEN "cid" \in DOMAIN saved.label /\ saved.label.cid = subject.cid
       ELSE "cid" \notin DOMAIN saved.label
    /\ saved.label.src = LabelerDid
    /\ saved.id \in RowIds(rows)
    /\ RowWithId(saved.id).val = want.val
    /\ RowWithId(saved.id).neg = (IF want.neg THEN 1 ELSE 0)
    /\ RowWithId(saved.id).uri = subject.uri
    /\ RowWithId(saved.id).src = LabelerDid

LabelsReturned ==
    emit.phase = "returned" =>
        /\ Len(emit.created) = Len(Wanted(emit.labels))
        /\ Cardinality(LabelsCalls) = Len(Wanted(emit.labels))
        /\ \A c \in LabelsCalls : calls[c].pc = "done"
        /\ {emit.created[i].id : i \in DOMAIN emit.created} = {calls[c].id : c \in LabelsCalls}
        /\ \A i \in DOMAIN emit.created :
              AsWanted(emit.created[i], Wanted(emit.labels)[i], emit.subject)
        /\ \A i, j \in DOMAIN emit.created :
              i < j => emit.created[i].id < emit.created[j].id
        /\ \A label \in ResponseLabels :
              \A i \in DOMAIN emit.created :
                  label.id = emit.created[i].id => label.neg = Wanted(emit.labels)[i].neg

AuthorizedRequest(e, j) ==
    /\ e.phase # "idle"
    /\ IsBearer(e.req.authorization)
    /\ ValidJwt([jwtStr |-> e.req.authorization[2], ownDid |-> LabelerDid, lxm |-> EMIT_NSID,
                 now |-> j.now, directory |-> j.directory, published |-> j.published])
    /\ e.req.authorization[2][2].iss \in e.hook

LabelVals(body) ==
    Field(body.event, "createLabelVals") \o Field(body.event, "negateLabelVals")

WellFormed(body) ==
    /\ {"event", "subject", "createdBy"} \subseteq DOMAIN body
    /\ body.event.type = MOD_EVENT_LABEL
    /\ LabelVals(body) # <<>>
    /\ body.subject.type \in {REPO_REF, STRONG_REF}

OnSubject(label, subject) ==
    IF subject.type = REPO_REF
    THEN label.uri = subject.did /\ "cid" \notin DOMAIN label
    ELSE label.uri = subject.uri /\ "cid" \in DOMAIN label /\ label.cid = subject.cid

(***************************************************************************)
(* C19: an authorized, well-formed emitEvent request succeeds, and a       *)
(* successful emitEvent has created exactly |createLabelVals| +            *)
(* |negateLabelVals| labels on the resolved subject (the DID of a repoRef, *)
(* the uri and cid of a strongRef) and its response carries the id of the  *)
(* first label it created: the one of the first createLabelVals entry if   *)
(* there is one, else of the first negateLabelVals entry.                  *)
(***************************************************************************)
EmitSucceeded == emit.phase = "responded" /\ emit.resp.status = 200

Malformed(body) ==
    /\ {"event", "subject", "createdBy"} \subseteq DOMAIN body
    /\ \/ body.event.type # MOD_EVENT_LABEL
       \/ LabelVals(body) = <<>>
       \/ body.subject.type \notin {REPO_REF, STRONG_REF}

C20_MalformedEventRejected ==
    /\ []((emit.phase = "responded" /\ AuthorizedRequest(emit, jwt) /\ Malformed(emit.req.body))
            => emit.resp = [status |-> 400, error |-> "InvalidRequest"])
    /\ [](\A c \in Calls : calls[c].origin.kind = "emit" => ~Malformed(calls[c].origin.req.body))
    /\ [][(emit' # emit /\ emit'.phase # "idle" /\ AuthorizedRequest(emit', jwt')
           /\ Malformed(emit'.req.body))
            => (emit'.phase = "responded" /\ rows' = rows /\ sent' = sent /\ calls' = calls)]_vars

(***************************************************************************)
(* The log under writes, replays, queries and health probes.               *)
(***************************************************************************)
HEALTH_VERSION == "0.2.0"

\* healthHandler: SELECT 1, then the version
HealthProbe ==
    /\ query' = [called |-> TRUE, probe |-> TRUE, table |-> rows,
                 resp |-> [status |-> 200, version |-> HEALTH_VERSION]]
    /\ UNCHANGED <<serverVars, emit, jwt, boot>>

AppendRequests ==
    SignRequests \cup {Query(<<<<"a", "*">>>>, <<>>, <<>>, <<>>),
                       Query(<<>>, <<>>, <<"0">>, <<"2">>)}

NextAppend ==
    \/ \E c \in Callers, data \in QueryLabelData : Awaited(c) /\ CreateLabel(c, data, "direct")
    \/ \E c \in Callers : DbInsert(c)
    \/ \E c \in Callers : SaveLabelResume(c)
    \/ \E ws \in Reader, cursorStr \in {<<"0">>, <<"1">>} : SubscribeLabels(ws, cursorStr)
    \/ \E ws \in Reader : DbMaxId(ws)
    \/ \E ws \in Reader : SubAfterLatest(ws)
    \/ \E ws \in Reader : DbReplay(ws)
    \/ \E ws \in Reader : SubAfterReplay(ws)
    \/ \E q \in AppendRequests : QueryLabels(q)
    \/ HealthProbe

SpecAppend == InitQuery /\ [][NextAppend]_vars

(***************************************************************************)
(* C21: the log is append-only.  No step changes or removes a stored row;  *)
(* the steps of queryLabels, subscribeLabels and the health probe leave    *)
(* the log as it is; a label that a replay or a query returned is, at any  *)
(* later time, the label its stored row gives; a replay returns every row  *)
(* after its cursor and a query without filters every row after its       *)
(* cursor up to its limit; repeating the last queryLabels request with no  *)
(* write in between gives the same response.                               *)
(***************************************************************************)
IsQuery(r) == r.called /\ "q" \in DOMAIN r

\* The ids of table in (cursor, n]
Between(table, cursor, n) == {m \in RowIds(table) : m > cursor /\ m <= n}

ReadsAreStable ==
    /\ \A ws \in Sockets : \A i \in MessageIdx(ws) :
          sent[ws][i].via = "replay" =>
              /\ SeqOf(sent[ws][i]) \in RowIds(rows)
              /\ sent[ws][i].frame =
                    MessageFrame(SeqOf(sent[ws][i]), RowToLabel(RowWithId(SeqOf(sent[ws][i]))))
    /\ \A ws \in Sockets :
          sub[ws].pc = "gotReplay" =>
              \A i \in DOMAIN sub[ws].replay : sub[ws].replay[i] = RowWithId(sub[ws].replay[i].id)
    /\ (IsQuery(query) /\ query.resp.status = 200) =>
          /\ \A i \in DOMAIN query.resp.labels :
                /\ query.resp.labels[i].id \in RowIds(rows)
                /\ query.resp.labels[i] =
                      formatLabel(QueryRow(RowWithId(query.resp.labels[i].id)))
          /\ (query.q.uriPatterns = <<>> /\ query.q.sources = <<>>) =>
                \A n \in RowIds(query.table) :
                    (/\ n > ParseQuery(query.q).val.cursor
                     /\ Cardinality(Between(query.table, ParseQuery(query.q).val.cursor, n))
                           <= ParseQuery(query.q).val.limit)
                    => \E i \in DOMAIN query.resp.labels : query.resp.labels[i].id = n
    /\ (IsQuery(query) /\ query.table = rows) => queryLabelsHandler(rows, query.q) = query.resp

C21_AppendOnly ==
    /\ []ReadsAreStable
    /\ [][/\ Len(rows') >= Len(rows)
          /\ \A i \in DOMAIN rows : rows'[i] = rows[i]]_vars
    /\ [][(query' # query \/ sub' # sub) => rows' = rows]_vars
    /\ [][\A ws \in Sockets :
            (sub[ws].pc = "awaitReplay" /\ sub'[ws].pc = "gotReplay") =>
                {sub'[ws].replay[i].id : i \in DOMAIN sub'[ws].replay}
                    = {n \in RowIds(rows) : n > sub[ws].cursor.val}]_vars

\* A label was replayed to a subscriber and returned by a query, a label
\* was stored after the replay, and a health probe was the last request.
C21_Witness ==
    /\ query.called /\ "probe" \in DOMAIN query
    /\ Len(rows) >= 2
    /\ \E ws \in Sockets : \E i \in MessageIdx(ws) :
          /\ sent[ws][i].via = "replay"
          /\ SeqOf(sent[ws][i]) < Len(rows)

(***************************************************************************)
(* C22: a subscriber whose transport closed, after it was registered or    *)
(* while its replay was in progress, is not in the live set once its       *)
(* handler has finished, and stays out; no frame is handed to a closed     *)
(* socket; a close leaves the membership of the other subscribers as it    *)
(* was.  (Subscribers the server terminated for a future cursor are left   *)
(* aside.)                                                                 *)
(***************************************************************************)
HandlerFinished(ws) == sub[ws].pc \in {"live", "rejected"}

TransportClosed(ws) ==
    /\ wsState[ws] = "closed"
    /\ \A i \in DOMAIN sent[ws] : ~IsError(sent[ws][i])

ClosedAreAbsent ==
    \A ws \in Sockets :
        TransportClosed(ws) =>
            /\ HandlerFinished(ws) => ws \notin LiveSet(connections)
            /\ \A i \in DOMAIN sent[ws] : sent[ws][i].ready # "closed"

C22_ClosedSubscriberRemoved ==
    /\ []ClosedAreAbsent
    /\ [][\A ws \in Sockets :
            (wsState[ws] # "closed" /\ wsState'[ws] = "closed") =>
                /\ LiveSet(connections') \ {ws} = LiveSet(connections) \ {ws}
                /\ ws \notin LiveSet(connections')]_vars

(***************************************************************************)
(* C23: a subscriber that connects without a cursor, or with one that      *)
(* parseInt does not read as a number, is registered in the live set at    *)
(* once, with no replay and no read of the store, and is then sent exactly *)
(* the labels committed after its registration, each once.                 *)
(***************************************************************************)
JoinedWithoutCursor(ws) == sub[ws].pc = "live" /\ sub[ws].cursor.isNaN

LiveTail ==
    \A ws \in Sockets :
        JoinedWithoutCursor(ws) =>
            /\ \A i \in DOMAIN sent[ws] : sent[ws][i].via = "live"
            /\ \A i, j \in MessageIdx(ws) :
                  i # j => SeqOf(sent[ws][i]) # SeqOf(sent[ws][j])
            /\ \A n \in MessageSeqs(ws) : n > sub[ws].joined
            /\ (NoEmitPending /\ wsState[ws] = "open")
                  => MessageSeqs(ws) = {n \in RowIds(rows) : n > sub[ws].joined}

C23_LiveTailOnly ==
    /\ []LiveTail
    /\ [][\A ws \in Sockets :
            (sub[ws].pc = "none" /\ sub'[ws].pc # "none" /\ sub'[ws].cursor.isNaN) =>
                /\ sub'[ws].pc = "live"
                /\ ws \in LiveSet(connections')
                /\ sent'[ws] = <<>>]_vars

(***************************************************************************)
(* LabelerServer.create called with any of the options of the model.       *)
(***************************************************************************)
InitCreate ==
    /\ rows = <<>>
    /\ connections = EmptyMap
    /\ wsState = [ws \in Sockets |-> "none"]
    /\ broken = {}
    /\ sub = [ws \in Sockets |-> NoSub]
    /\ sent = [ws \in Sockets |-> <<>>]
    /\ calls = [c \in Calls |-> NoCall]
    /\ emit = Idle
    /\ jwt = Idle
    /\ query = Idle
    /\ boot = NotBooted

NextCreate == \E options \in CreateOptions : Create(options)

SpecCreate == InitCreate /\ [][NextCreate]_vars

(***************************************************************************)
(* C24: LabelerServer.create rejects, without constructing a server,       *)
(* opening the store or registering a route, every options value whose did *)
(* is not of the form did:plc:... or did:web:..., whose signingKey starts  *)
(* with did:key:, or whose signingKey does not decode to exactly 32 bytes. *)
(***************************************************************************)
PlcOrWebForm(did) ==
    \E method \in {<<"p", "l", "c">>, <<"w", "e", "b">>} :
        /\ StartsWith(did, <<"d", "i", "d", ":">> \o method \o <<":">>)
        /\ Len(did) > Len(<<"d", "i", "d", ":">> \o method \o <<":">>)

C24_CreateRejectsBadOptions ==
    (/\ boot.called
     /\ \/ ~PlcOrWebForm(boot.options.did)
        \/ boot.options.signingKey.encoding = DID_KEY_PREFIX
        \/ boot.options.signingKey.byteLength # PrivateKeyLen)
    => (~boot.result.ok /\ "server" \notin DOMAIN boot.result)

(***************************************************************************)
(* C25: when the signature does not verify against the key of the first    *)
(* (possibly cached) resolution, verifyJwt resolves the issuer's key again *)
(* with forced refresh, verifies a second time if the refreshed key is     *)
(* another one, and accepts iff that verification succeeds.  So a token    *)
(* signed with a newly rotated key is accepted while the cache still holds *)
(* the old key, and the cache then holds the new key; a token signed with  *)
(* neither key is rejected with BadJwtSignature.                           *)
(***************************************************************************)
\* The call of this step, when the step is a call of verifyJwt
VerifyJwtStep == jwt'.last # jwt.last /\ jwt'.last.called

\* All that ValidJwt asks for but the signer
WellAddressed(call) ==
    /\ Len(call.jwtStr) = 3
    /\ {"iss", "aud", "exp", "lxm"} \subseteq DOMAIN call.jwtStr[2]
    /\ call.now \div 1000 < call.jwtStr[2].exp
    /\ call.jwtStr[2].aud = call.ownDid
    /\ call.jwtStr[2].lxm = call.lxm
    /\ call.jwtStr[3].over = sha256(<<call.jwtStr[1], call.jwtStr[2]>>)

\* The cache holds an unexpired key of the issuer that is no longer the one
\* its document gives
HoldsOldKey(cache, iss, directory, now) ==
    /\ MapHas(cache, iss)
    /\ now < cache[iss].expires
    /\ FetchKey(iss, directory).ok
    /\ cache[iss].key # FetchKey(iss, directory).val

RotatedKeyAccepted ==
    (/\ VerifyJwtStep
     /\ ValidJwt(jwt'.last)
     /\ HoldsOldKey(jwt.cache, jwt'.last.jwtStr[2].iss, jwt.directory, jwt.now))
    => /\ jwt'.last.res.ok
       /\ jwt'.last.res.val = jwt'.last.jwtStr[2]
       /\ MapHas(jwt'.cache, jwt'.last.jwtStr[2].iss)
       /\ jwt'.cache[jwt'.last.jwtStr[2].iss].key
             = FetchKey(jwt'.last.jwtStr[2].iss, jwt.directory).val

ForeignKeyRejected ==
    (/\ VerifyJwtStep
     /\ WellAddressed(jwt'.last)
     /\ ~MapHas(jwt.cache, jwt'.last.jwtStr[2].iss)
     /\ FetchKey(jwt'.last.jwtStr[2].iss, jwt.directory).ok
     /\ jwt'.last.jwtStr[3].signer # jwt.published[jwt'.last.jwtStr[2].iss])
    => /\ jwt'.last.res = Throw(401, "BadJwtSignature")
       /\ MapHas(jwt'.cache, jwt'.last.jwtStr[2].iss)
       /\ jwt'.cache[jwt'.last.jwtStr[2].iss].key
             = FetchKey(jwt'.last.jwtStr[2].iss, jwt.directory).val

C25_RotatedKeyRetry == [][RotatedKeyAccepted /\ ForeignKeyRejected]_vars

(***************************************************************************)
(* C26: an emitEvent request whose token passes the checks before the      *)
(* signature, and whose issuer's DID cannot be resolved, is answered 401   *)
(* BadJwtSignature, not InternalServerError; answering it writes nothing.  *)
(***************************************************************************)
Unresolvable(e, j) ==
    /\ e.phase = "responded"
    /\ IsBearer(e.req.authorization)
    /\ WellAddressed([jwtStr |-> e.req.authorization[2], ownDid |-> LabelerDid,
                      lxm |-> EMIT_NSID, now |-> j.now])
    /\ ~MapHas(j.cache, e.req.authorization[2][2].iss)
    /\ ~FetchKey(e.req.authorization[2][2].iss, j.directory).ok

C26_UnresolvedIssuerIsBadSignature ==
    /\ [](Unresolvable(emit, jwt) => emit.resp = [status |-> 401, error |-> "BadJwtSignature"])
    /\ [][(emit' # emit /\ Unresolvable(emit', jwt'))
            => (rows' = rows /\ sent' = sent /\ calls' = calls)]_vars

(***************************************************************************)
(* C27: verifyJwt checks, in this order, the shape of the token (BadJwt),  *)
(* its expiry (JwtExpired), its audience (BadJwtAudience) and its lexicon  *)
(* method (BadJwtLexiconMethod) before the signature, and reports the      *)
(* first check that fails; a token that one of these four checks rejects   *)
(* causes no DID resolution and leaves the DID-to-key cache as it was.     *)
(***************************************************************************)
FirstFailure(call) ==
    IF Len(call.jwtStr) # 3 THEN "BadJwt"
    ELSE IF ~({"iss", "aud", "exp"} \subseteq DOMAIN call.jwtStr[2]) THEN "BadJwt"
    ELSE IF \/ call.now \div 1000 > call.jwtStr[2].exp
               \/ (call.now \div 1000 = call.jwtStr[2].exp /\ call.now % 1000 # 0)
         THEN "JwtExpired"
    ELSE IF call.jwtStr[2].aud # call.ownDid THEN "BadJwtAudience"
    ELSE IF "lxm" \notin DOMAIN call.jwtStr[2] THEN "BadJwtLexiconMethod"
    ELSE IF call.jwtStr[2].lxm # call.lxm THEN "BadJwtLexiconMethod"
    ELSE "none"

EarlyKinds == {"BadJwt", "JwtExpired", "BadJwtAudience", "BadJwtLexiconMethod"}

ChecksInOrder ==
    jwt.last.called =>
        IF FirstFailure(jwt.last) = "none"
        THEN jwt.last.res.ok \/ jwt.last.res.err \notin EarlyKinds
        ELSE jwt.last.res = Throw(401, FirstFailure(jwt.last))

C27_ChecksInOrder ==
    /\ []ChecksInOrder
    /\ [][(VerifyJwtStep /\ FirstFailure(jwt'.last) # "none") => jwt'.cache = jwt.cache]_vars

(***************************************************************************)
(* resolveDidToSigningKey called on its own, while issuers rotate their    *)
(* keys, documents become unavailable and time passes.                     *)
(***************************************************************************)
ResolveDids == Issuers \cup {CarolDid}

ResolveDid(did, forceRefresh) ==
    /\ LET out == resolveDidToSigningKey(did, forceRefresh, jwt.cache, jwt.directory, jwt.now)
       IN  jwt' = [jwt EXCEPT !.cache = out.cache,
                              !.last = [called |-> TRUE, did |-> did,
                                        forceRefresh |-> forceRefresh, res |-> out.res]]
    /\ UNCHANGED <<serverVars, emit, query, boot>>

\* The issuer's document can no longer be fetched.
Withdraw(did) ==
    /\ jwt.directory[did].found
    /\ jwt' = [jwt EXCEPT !.directory[did] = NotFound]
    /\ UNCHANGED <<serverVars, emit, query, boot>>

NextResolve ==
    \/ \E did \in ResolveDids, forceRefresh \in BOOLEAN : ResolveDid(did, forceRefresh)
    \/ \E did \in Issuers : \E doc \in DocsOf(did, NewKey) : RotateKey(did, doc)
    \/ \E did \in Issuers : Withdraw(did)
    \/ Tick

\* The clock starts one tick earlier than under SpecJwt, so that an entry
\* made at the start reaches its expiry.
InitResolve ==
    /\ InitServer /\ emit = Idle /\ query = Idle
    /\ \E da \in DocsOf(AliceDid, AliceKey) \cup {NotFound},
          db \in DocsOf(BobDid, BobKey) \cup {NotFound} :
           jwt = [cache |-> EmptyMap,
                  directory |-> [did \in Issuers |-> IF did = AliceDid THEN da ELSE db],
                  published |-> [did \in Issuers |-> IF did = AliceDid THEN AliceKey ELSE BobKey],
                  now |-> 0,
                  last |-> NoJwtCall]

SpecResolve == InitResolve /\ [][NextResolve]_vars

(***************************************************************************)
(* C28: the DID-to-key cache holds only keys that a successful resolution  *)
(* of that DID returned.  A resolve without forced refresh within one hour *)
(* of the successful resolve returns the cached key without fetching; at   *)
(* or after the expiry the entry is deleted and the DID is fetched again;  *)
(* a failed resolution is never cached; a forced refresh always fetches,   *)
(* replaces the entry when it succeeds and leaves the previous entry in    *)
(* place when it fails.                                                    *)
(***************************************************************************)
ResolveStep == jwt'.last # jwt.last \/ jwt'.cache # jwt.cache

\* The entry a successful fetch at time now leaves
FreshEntry(did, directory, now) ==
    [key |-> FetchKey(did, directory).val, expires |-> now + CACHE_TTL_MS]

Fetched(did, before) ==
    IF FetchKey(did, jwt.directory).ok
    THEN /\ jwt'.last.res = FetchKey(did, jwt.directory)
         /\ jwt'.cache = MapSet(jwt.cache, did, FreshEntry(did, jwt.directory, jwt.now))
    ELSE /\ ~jwt'.last.res.ok
         /\ jwt'.cache = before

CacheRules ==
    ResolveStep =>
        LET did == jwt'.last.did
        IN  IF jwt'.last.forceRefresh THEN Fetched(did, jwt.cache)
            ELSE IF ~MapHas(jwt.cache, did) THEN Fetched(did, jwt.cache)
            ELSE IF jwt.now < jwt.cache[did].expires
            THEN jwt'.last.res = Ok(jwt.cache[did].key) /\ jwt'.cache = jwt.cache
            ELSE Fetched(did, MapDelete(jwt.cache, did))

\* The keys the documents of a DID have given
KeysOf(did) ==
    {FetchKey(did, [d \in Issuers |-> doc]).val :
        doc \in {doc \in DocsOf(did, jwt.published[did]) \cup DocsOf(did, AliceKey)
                             \cup DocsOf(did, BobKey) :
                    FetchKey(did, [d \in Issuers |-> doc]).ok}}

OnlyResolvedKeys ==
    \A did \in ResolveDids :
        MapHas(jwt.cache, did) =>
            /\ did \in Issuers
            /\ jwt.cache[did].key \in KeysOf(did)
            /\ jwt.cache[did].expires <= jwt.now + CACHE_TTL_MS

C28_CacheHoldsResolvedKeys == []OnlyResolvedKeys /\ [][CacheRules]_vars

\* Some time after the start, a resolve without forced refresh returned the
\* cached key although the issuer's document now gives another key.
C28_Witness ==
    /\ jwt.last.called
    /\ ~jwt.last.forceRefresh
    /\ jwt.last.res.ok
    /\ FetchKey(jwt.last.did, jwt.directory).ok
    /\ jwt.last.res # FetchKey(jwt.last.did, jwt.directory)
    /\ jwt.now > 0


(***************************************************************************)
(* parseMultikey applied to multibase keys, and to what formatMultikey     *)
(* makes of a public key.                                                  *)
(***************************************************************************)
MaxKey == 4

OTHER_PREFIX == <<237, 1>>

KeyPoints == {PrivateKey(curve, k) : curve \in {"p256", "k256"}, k \in 1..MaxKey}

MultikeyInputs ==
    {KeyString(scheme, base, prefix \o PublicKeyBytes(point)) :
        scheme \in {"", DID_KEY_PREFIX}, base \in {BASE58_MULTIBASE_PREFIX, "m"},
        prefix \in {P256_DID_PREFIX, SECP256K1_DID_PREFIX, OTHER_PREFIX},
        point \in KeyPoints}

NoKeyCall == [called |-> FALSE]

InitMultikey == InitServer /\ emit = Idle /\ query = Idle /\ jwt = NoKeyCall

ParseMultikey(key) ==
    /\ jwt' = [called |-> TRUE, op |-> "parse", key |-> key, res |-> parseMultikey(key)]
    /\ UNCHANGED <<serverVars, emit, query, boot>>

FormatThenParse(jwtAlg, point, isCompressed) ==
    /\ LET keyBytes == toRawBytes(point, isCompressed)
       IN  jwt' = [called |-> TRUE, op |-> "format", jwtAlg |-> jwtAlg, keyBytes |-> keyBytes,
                   key |-> formatMultikey(jwtAlg, keyBytes),
                   res |-> Then(formatMultikey(jwtAlg, keyBytes), parseMultikey)]
    /\ UNCHANGED <<serverVars, emit, query, boot>>

NextMultikey ==
    \/ \E key \in MultikeyInputs : ParseMultikey(key)
    \/ \E jwtAlg \in {P256_JWT_ALG, SECP256K1_JWT_ALG}, point \in KeyPoints, isCompressed \in BOOLEAN :
           FormatThenParse(jwtAlg, point, isCompressed)

SpecMultikey == InitMultikey /\ [][NextMultikey]_vars

(***************************************************************************)
(* C29: parseMultikey classifies a multibase key whose bytes start with    *)
(* 0x80 0x24 as ES256 and one whose bytes start with 0xe7 0x01 as ES256K,  *)
(* strips exactly that two-byte prefix and rejects every other prefix; it  *)
(* is the inverse of formatMultikey: parseMultikey(formatMultikey(alg,     *)
(* key)) gives alg and the same public key, for both algorithms.           *)
(***************************************************************************)
AlgCurve(jwtAlg) == IF jwtAlg = P256_JWT_ALG THEN "p256" ELSE "k256"

\* The key that remains behind the two-byte prefix, for the algorithm
Classified(jwtAlg, prefixedBytes) ==
    Then(decompressPubkey(AlgCurve(jwtAlg), subarray(prefixedBytes, 2)), LAMBDA keyBytes :
        Ok([jwtAlg |-> jwtAlg, keyBytes |-> keyBytes]))

IsMultibaseKey(key) == key.scheme = "" /\ key.base = BASE58_MULTIBASE_PREFIX

ParsedByPrefix ==
    (jwt.called /\ jwt.op = "parse" /\ IsMultibaseKey(jwt.key)) =>
        IF hasPrefix(jwt.key.data, P256_DID_PREFIX)
        THEN jwt.res = Classified(P256_JWT_ALG, jwt.key.data)
        ELSE IF hasPrefix(jwt.key.data, SECP256K1_DID_PREFIX)
        THEN jwt.res = Classified(SECP256K1_JWT_ALG, jwt.key.data)
        ELSE ~jwt.res.ok

InverseOfFormat ==
    (jwt.called /\ jwt.op = "format" /\ jwt.key.ok) =>
        /\ jwt.res.ok
        /\ jwt.res.val.jwtAlg = jwt.jwtAlg
        /\ fromHex(AlgCurve(jwt.jwtAlg), jwt.res.val.keyBytes)
              = fromHex(AlgCurve(jwt.jwtAlg), jwt.keyBytes)

C29_ParseMultikeyInvertsFormat == ParsedByPrefix /\ InverseOfFormat


(***************************************************************************)
(* C30: the map that signLabel encodes and signs contains ver = 1, src,    *)
(* uri, val and cts, plus cid and exp only when they are non-null, plus    *)
(* neg only when it is true (a falsy neg is omitted, never encoded as      *)
(* false); no field is encoded as null or undefined.                       *)
(***************************************************************************)
\* The maps signLabel has encoded and signed: those that the signatures of
\* the server's key were made over.
SignedMaps ==
    {calls[c].signed.sig.over.sha256.cbor :
        c \in {d \in Calls : /\ calls[d].pc = "insert"
                             /\ calls[d].signed.sig.signer = SigningKey}}
    \cup {rows[i].sig.over.sha256.cbor :
             i \in {j \in DOMAIN rows : rows[j].sig.signer = SigningKey}}

C30_SignedMapFields ==
    \A toSign \in SignedMaps :
        /\ {"ver", "src", "uri", "val", "cts"} \subseteq DOMAIN toSign
        /\ DOMAIN toSign \subseteq {"ver", "src", "uri", "val", "cts", "cid", "exp", "neg"}
        /\ toSign.ver = LABEL_VERSION
        /\ \A k \in DOMAIN toSign \cap NullableKeys : toSign[k] # Undefined
        /\ "neg" \in DOMAIN toSign => toSign.neg = TRUE


(***************************************************************************)
(* Store failures.  db.execute rejects: the INSERT of saveLabel, the       *)
(* SELECT MAX(id) and the replay SELECT of subscribeLabelsHandler.         *)
(***************************************************************************)
DbInsertFailBroadcasting(c) ==
    /\ calls[c].pc = "insert"
    /\ calls' = [calls EXCEPT ![c] =
                    [pc |-> "inserted",
                     signed |-> calls[c].signed,
                     origin |-> calls[c].origin,
                     id |-> NextId(rows),
                     doneBefore |-> calls[c].doneBefore]]
    /\ UNCHANGED emit
    /\ UNCHANGED <<rows, connections, wsState, broken, sub, sent, jwt, query, boot>>

\* The INSERT rejects (or returns no row): saveLabel throws before
\* emitLabel, and createLabel, createLabels and the emitEvent handler
\* reject with it.
DbInsertFail(c) ==
    /\ calls[c].pc = "insert"
    /\ calls' = [calls EXCEPT ![c] =
                    [pc |-> "insertFailed",
                     signed |-> calls[c].signed,
                     origin |-> calls[c].origin,
                     doneBefore |-> calls[c].doneBefore]]
    /\ IF calls[c].origin.kind = "emit"
       THEN emit' = [emit EXCEPT !.phase = "responded", !.todo = <<>>,
                                 !.resp = errorHandler(ThrowError)]
       ELSE IF calls[c].origin.kind = "labels"
       THEN emit' = [emit EXCEPT !.phase = "threw", !.todo = <<>>]
       ELSE UNCHANGED emit
    /\ UNCHANGED <<rows, connections, wsState, broken, sub, sent, jwt, query, boot>>

\* The SELECT MAX(id) rejects.  The await is outside the try, so the
\* handler rejects there: it sends nothing and registers nothing.  Whether
\* the socket is terminated then is left to the WebSocket plugin.
DbMaxIdFail(ws) ==
    /\ sub[ws].pc = "awaitLatest"
    /\ sub' = [sub EXCEPT ![ws].pc = "storeRejected"]
    /\ \E terminated \in BOOLEAN :
          wsState' = [wsState EXCEPT ![ws] = IF terminated THEN terminate(@) ELSE @]
    /\ UNCHANGED <<rows, connections, broken, sent, calls, emit, jwt, query, boot>>

\* The replay SELECT rejects inside the try.
DbReplayFail(ws) ==
    /\ sub[ws].pc = "awaitReplay"
    /\ sub' = [sub EXCEPT ![ws].pc = "caught"]
    /\ UNCHANGED <<rows, connections, wsState, broken, sent, calls, emit, jwt, query, boot>>

\* The catch block, and the statements that follow the try.
SubCatch(ws) ==
    /\ sub[ws].pc = "caught"
    /\ IF ws \in broken
       THEN \* the send of the error frame throws
            /\ sub' = [sub EXCEPT ![ws].pc = "rejected"]
            /\ UNCHANGED <<sent, wsState, connections>>
       ELSE /\ sent' = [sent EXCEPT ![ws] =
                   Append(@, Sent(ErrorFrame("InternalServerError", "An unknown error occurred"),
                                  "error", wsState[ws]))]
            /\ wsState' = [wsState EXCEPT ![ws] = terminate(@)]
            /\ connections' = addSubscription(connections, SUBSCRIBE_NSID, ws)
            /\ sub' = [sub EXCEPT ![ws].pc = "live", ![ws].onClose = TRUE]
    /\ UNCHANGED <<rows, broken, calls, emit, jwt, query, boot>>

StoreCursors == {<<"0">>, <<"1">>}

NextStore ==
    \/ \E c \in Callers, data \in StreamLabelData : CreateLabel(c, data, "direct")
    \/ \E c \in Callers : DbInsert(c)
    \/ \E c \in Callers : DbInsertFail(c)
    \/ \E c \in Callers : SaveLabelResume(c)
    \/ \E ws \in Reader, cursorStr \in StoreCursors : SubscribeLabels(ws, cursorStr)
    \/ \E ws \in Reader : DbMaxId(ws)
    \/ \E ws \in Reader : DbMaxIdFail(ws)
    \/ \E ws \in Reader : SubAfterLatest(ws)
    \/ \E ws \in Reader : DbReplay(ws)
    \/ \E ws \in Reader : DbReplayFail(ws)
    \/ \E ws \in Reader : SubAfterReplay(ws)
    \/ \E ws \in Reader : SubCatch(ws)
    \/ \E ws \in Reader : Close(ws)
    \/ \E ws \in Reader : Break(ws)

SpecStore == Init /\ [][NextStore]_vars

(***************************************************************************)
(* C31: if reading the store fails during a subscriber's join with an      *)
(* integer cursor (the max-id lookup or the replay scan), the subscriber   *)
(* is sent one InternalServerError error frame, is terminated, and is      *)
(* never added to the live set, so it is sent no live frame afterwards.    *)
(***************************************************************************)
ErrorFrames(ws, error) ==
    {i \in DOMAIN sent[ws] : IsError(sent[ws][i]) /\ sent[ws][i].frame[2].cbor.error = error}

\* The handler has dealt with a failed read of the store
ReadFailed(ws) ==
    \/ sub[ws].pc = "storeRejected"
    \/ ErrorFrames(ws, "InternalServerError") # {}

AfterReadFailure(ws) ==
    /\ Cardinality(ErrorFrames(ws, "InternalServerError")) = 1
    /\ wsState[ws] \in {"closing", "closed"}
    /\ ws \notin LiveSet(connections)
    /\ \A i \in DOMAIN sent[ws] : sent[ws][i].via # "live"

C31_ReadFailureEndsSubscription ==
    \A ws \in Sockets : (ReadFailed(ws) /\ ws \notin broken) => AfterReadFailure(ws)


(***************************************************************************)
(* C32: every message frame broadcast live carries a seq that is already   *)
(* the id of a row of the log at the moment it is sent, so a query or      *)
(* replay issued after receiving seq n returns label n; an insert that     *)
(* fails broadcasts nothing.                                               *)
(***************************************************************************)
LiveIdx(ws) == {i \in MessageIdx(ws) : sent[ws][i].via = "live"}

\* The frames a step hands to a socket
NewFrames(ws) == {sent'[ws][i] : i \in (DOMAIN sent'[ws]) \ (DOMAIN sent[ws])}

\* A replay from just before seq n would send this very frame
ReplayReturns(e) ==
    \E r \in Range(SelectAfter(rows, SeqOf(e) - 1)) :
        r.id = SeqOf(e) /\ MessageFrame(r.id, RowToLabel(r)) = e.frame

BroadcastOfStoredRow ==
    \A ws \in Sockets : \A e \in NewFrames(ws) :
        e.via = "live" => SeqOf(e) \in RowIds(rows)

FailedInsertIsSilent ==
    \A c \in Calls :
        (calls'[c].pc = "insertFailed" /\ calls[c].pc # "insertFailed") =>
            sent' = sent /\ rows' = rows

LiveFramesAreInTheLog ==
    \A ws \in Sockets : \A i \in LiveIdx(ws) :
        /\ ReplayReturns(sent[ws][i])
        /\ \E c \in Calls : /\ calls[c].pc \in {"done", "threw"}
                            /\ calls[c].id = SeqOf(sent[ws][i])

C32_BroadcastAfterInsert ==
    []LiveFramesAreInTheLog /\ [][BroadcastOfStoredRow /\ FailedInsertIsSilent]_vars

\* A subscriber was sent a frame live while the insert of another call had
\* failed.
C32_Witness ==
    /\ \E ws \in Sockets : LiveIdx(ws) # {}
    /\ \E c \in Calls : calls[c].pc = "insertFailed"


(***************************************************************************)
(* Start-up.  The constructor has started initializeDatabase; boot.init is *)
(* the statement it is at, boot.start the state of the call of start().    *)
(* The application calls start, createLabel and createLabels at any time.  *)
(***************************************************************************)
Constructed == [Booted EXCEPT !.init = "pragma"]

\* PRAGMA journal_mode = WAL; a failure is caught and only warned about
DbPragma ==
    /\ boot.init = "pragma"
    /\ boot' = [boot EXCEPT !.init = "schema"]
    /\ UNCHANGED <<serverVars, emit, jwt, query>>

DbPragmaFail ==
    /\ boot.init = "pragma"
    /\ boot' = [boot EXCEPT !.init = "schema", !.wal = FALSE]
    /\ UNCHANGED <<serverVars, emit, jwt, query>>

\* CREATE TABLE IF NOT EXISTS labels
DbSchema ==
    /\ boot.init = "schema"
    /\ boot' = [boot EXCEPT !.init = "ready"]
    /\ UNCHANGED <<serverVars, emit, jwt, query>>

\* its failure is logged and thrown again
DbSchemaFail ==
    /\ boot.init = "schema"
    /\ boot' = [boot EXCEPT !.init = "failed"]
    /\ UNCHANGED <<serverVars, emit, jwt, query>>

Start ==
    /\ boot.start = "none"
    /\ boot' = [boot EXCEPT !.start = "awaitInit"]
    /\ UNCHANGED <<serverVars, emit, jwt, query>>

\* app.listen(options), which resolves or rejects
StartListen(listens) ==
    /\ boot.start = "awaitInit"
    /\ DbInitLockResolved
    /\ boot' = [boot EXCEPT !.start = IF listens THEN "listening" ELSE "rejected"]
    /\ UNCHANGED <<serverVars, emit, jwt, query>>

InitRejected == boot.init = "failed"

StartReject ==
    /\ boot.start = "awaitInit"
    /\ InitRejected
    /\ boot' = [boot EXCEPT !.start = "rejected"]
    /\ UNCHANGED <<serverVars, emit, jwt, query>>

\* createLabel rejects with the error of the initialization
CreateLabelReject(c) ==
    /\ InitRejected
    /\ calls[c].pc = "idle"
    /\ \A d \in Calls : d < c => calls[d].pc # "idle"
    /\ calls' = [calls EXCEPT ![c] = [pc |-> "failed", origin |-> Direct,
                                      doneBefore |-> CompletedIds]]
    /\ UNCHANGED <<rows, connections, wsState, broken, sub, sent, emit, jwt, query, boot>>

\* and so does createLabels
CreateLabelsReject ==
    /\ InitRejected
    /\ emit.phase = "idle"
    /\ emit' = [emit EXCEPT !.phase = "threw"]
    /\ UNCHANGED <<serverVars, jwt, query, boot>>

InitStart ==
    /\ rows = <<>>
    /\ connections = EmptyMap
    /\ wsState = [ws \in Sockets |-> "none"]
    /\ broken = {}
    /\ sub = [ws \in Sockets |-> NoSub]
    /\ sent = [ws \in Sockets |-> <<>>]
    /\ calls = [c \in Calls |-> NoCall]
    /\ boot = Constructed
    /\ emit = NoLabelsCall
    /\ jwt = Idle
    /\ query = NoQuery

NextStart ==
    \/ DbPragma
    \/ DbPragmaFail
    \/ DbSchema
    \/ DbSchemaFail
    \/ Start
    \/ \E listens \in BOOLEAN : StartListen(listens)
    \/ StartReject
    \/ \E subject \in LabelSubjects, labels \in LabelLists : CreateLabels(subject, labels)
    \/ CreateLabelsReject
    \/ \E c \in Writers, data \in StreamLabelData : Awaited(c) /\ CreateLabel(c, data, "direct")
    \/ \E c \in Writers : CreateLabelReject(c)
    \/ \E c \in Writers : CreateNext(c)
    \/ \E c \in Writers : DbInsert(c)
    \/ \E c \in Writers : SaveLabelResume(c)

SpecStart == InitStart /\ [][NextStart]_vars

(***************************************************************************)
(* C33: start() begins listening only after the schema initialization      *)
(* started by the constructor has completed successfully; if the           *)
(* initialization fails, start() rejects and the server never listens;     *)
(* createLabel and createLabels perform no insert before the               *)
(* initialization has completed.                                           *)
(***************************************************************************)
ListensAfterInit ==
    /\ boot.start = "listening" => boot.init = "ready"
    /\ \A c \in Calls : calls[c].pc \in {"insert", "inserted", "done", "threw"} => boot.init = "ready"
    /\ rows # <<>> => boot.init = "ready"

StartAwaitsInit ==
    /\ (boot.start = "awaitInit" /\ boot'.start = "listening") => boot.init = "ready"
    /\ (boot.start = "awaitInit" /\ boot.init = "failed" /\ boot'.start # "awaitInit")
          => boot'.start = "rejected"
    /\ boot.start = "rejected" => boot'.start = "rejected"
    /\ boot.init = "failed" => boot'.init = "failed"
    /\ rows' # rows => boot.init = "ready"

C33_InitBeforeTraffic == []ListensAfterInit /\ [][StartAwaitsInit]_vars

\* The server listens and createLabels has stored a label.
C33_Witness ==
    /\ boot.start = "listening"
    /\ emit.phase = "returned"
    /\ rows # <<>>


(***************************************************************************)
(* emitEvent requests while the store may fail an INSERT.                  *)
(***************************************************************************)
NextEmitStore ==
    \/ \E req \in EmitRequests : EmitEvent(req)
    \/ \E c \in Callers : \E draft \in EmitDrafts : CreateLabel(c, draft.data, draft.kind)
    \/ \E c \in Callers : DbInsert(c)
    \/ \E c \in Callers : DbInsertFail(c)
    \/ \E c \in Callers : SaveLabelResume(c)
    \/ \E ws \in Scanners : SubscribeLabels(ws, <<>>)

SpecEmitStore == InitEmitSpec /\ [][NextEmitStore]_vars

(***************************************************************************)
(* C34: when a store insert fails during an emitEvent request, the request *)
(* is answered 500 InternalServerError, the failing label and all later    *)
(* values of the request are neither stored nor broadcast, and every label *)
(* of the same request that was inserted before the failure stays in the   *)
(* log and in the subscribers' streams as an ordinary label (no rollback). *)
(* An authorized, well-formed request therefore ends in one of two ways:   *)
(* 200 with all its labels, or 500 after the insert that failed.           *)
(***************************************************************************)
\* The createLabel call the request was awaiting ended in a failed INSERT
EmitInsertFailed ==
    /\ emit.phase # "idle"
    /\ emit.cur # 0
    /\ calls[emit.cur].pc = "insertFailed"
    /\ calls[emit.cur].origin.kind = "emit"

\* The labels the request created before are in the log and were sent to
\* the subscribers that were live before them
CreatedStay ==
    \A i \in DOMAIN emit.created :
        /\ emit.created[i].id \in RowIds(rows)
        /\ RowWithId(emit.created[i].id).val = LabelVals(emit.req.body)[i]
        /\ \A ws \in Sockets :
              (sub[ws].pc = "live" /\ sub[ws].joined < emit.created[i].id)
                  => emit.created[i].id \in MessageSeqs(ws)

\* No createLabel of a request is under way
NoneUnderWay ==
    \A c \in Calls :
        calls[c].origin.kind = "emit" => calls[c].pc \notin {"insert", "inserted"}

AbortedByFailedInsert ==
    /\ emit.phase = "responded"
    /\ emit.resp = [status |-> 500, error |-> "InternalServerError"]
    /\ Len(emit.created) < Len(LabelVals(emit.req.body))
    /\ CreatedStay
    /\ NoneUnderWay

BufferBound == 2

Drain(ws) ==
    /\ wsState[ws] = "open"
    /\ sub[ws].delivered < Len(sent[ws])
    /\ sub' = [sub EXCEPT ![ws].delivered = @ + 1]
    /\ UNCHANGED <<rows, connections, wsState, broken, sent, calls, emit, jwt, query, boot>>

NextSlow ==
    \/ \E c \in Writers, data \in StreamLabelData : Awaited(c) /\ CreateLabel(c, data, "direct")
    \/ \E c \in Writers : DbInsert(c)
    \/ \E c \in Writers : SaveLabelResume(c)
    \/ \E ws \in Reader, cursorStr \in {<<>>, <<"0">>} : SubscribeLabels(ws, cursorStr)
    \/ \E ws \in Reader : DbMaxId(ws)
    \/ \E ws \in Reader : SubAfterLatest(ws)
    \/ \E ws \in Reader : DbReplay(ws)
    \/ \E ws \in Reader : SubAfterReplay(ws)
    \/ \E ws \in Reader : Drain(ws)
    \/ \E ws \in Reader : Close(ws)

SpecSlow == Init /\ [][NextSlow]_vars

(***************************************************************************)
(* C35: a subscriber whose undelivered frames (from the replay or from     *)
(* live broadcasts) exceed the buffer bound is sent a ConsumerTooSlow      *)
(* error frame and terminated, so the backlog held for any one subscriber  *)
(* never grows beyond the bound, and the frames that are delivered keep    *)
(* their order.                                                            *)
(***************************************************************************)
\* The message frames queued for the subscriber and not yet passed on
Backlog(ws) ==
    {i \in MessageIdx(ws) : i > sub[ws].delivered}

DeliveredInOrder(ws) ==
    \A i, j \in MessageIdx(ws) :
        (i < j /\ j <= sub[ws].delivered /\ sent[ws][i].via = sent[ws][j].via)
            => SeqOf(sent[ws][i]) < SeqOf(sent[ws][j])

C35_BacklogBounded ==
    \A ws \in Sockets :
        /\ wsState[ws] = "open" => Cardinality(Backlog(ws)) <= BufferBound
        /\ Cardinality(Backlog(ws)) > BufferBound => ErrorFrames(ws, "ConsumerTooSlow") # {}
        /\ DeliveredInOrder(ws)


(***************************************************************************)
(* emitEvent requests next to an application that calls createLabel with   *)
(* and without a src of its own.                                           *)
(***************************************************************************)
\* A draft whose caller names another source
SrcLabelData == [uri |-> <<"a">>, val |-> "!hide", src |-> AliceDid]

SrcRequests ==
    {req \in EmitRequests : IsBearer(req.authorization) /\ WellFormed(req.body)}

SrcDrafts ==
    {[kind |-> "direct", data |-> data] : data \in StreamLabelData \cup {SrcLabelData}}
    \cup (IF emit.phase = "creating" /\ emit.todo # <<>>
          THEN {[kind |-> "emit", data |-> Head(emit.todo)]} ELSE {})

NextSrc ==
    \/ \E req \in SrcRequests : EmitEvent(req)
    \/ \E c \in Callers : \E draft \in SrcDrafts : CreateLabel(c, draft.data, draft.kind)
    \/ \E c \in Callers : DbInsert(c)
    \/ \E c \in Callers : SaveLabelResume(c)
    \/ \E ws \in Scanners : SubscribeLabels(ws, <<>>)

SpecSrc == InitEmitSpec /\ [][NextSrc]_vars

(***************************************************************************)
(* C36: every label created through the emitEvent endpoint is stored with  *)
(* src equal to the labeler's own DID and ver 1, whoever the authenticated *)
(* issuer is (also when the auth hook admits another DID): an authorized,  *)
(* well-formed request gets its labels stored so.  A label's src differs   *)
(* from the labeler's DID only when a direct createLabel caller supplied   *)
(* src.                                                                    *)
(***************************************************************************)
EmitLabelsBySelf ==
    (emit.phase = "responded" /\ AuthorizedRequest(emit, jwt) /\ WellFormed(emit.req.body)) =>
        /\ EmitSucceeded
        /\ Len(emit.created) = Len(LabelVals(emit.req.body))
        /\ \A i \in DOMAIN emit.created :
              /\ emit.created[i].id \in RowIds(rows)
              /\ RowWithId(emit.created[i].id).src = LabelerDid
              /\ emit.created[i].label.src = LabelerDid
              /\ emit.created[i].label.ver = LABEL_VERSION

StoredByRequest ==
    \A c \in Calls :
        (calls[c].origin.kind = "emit" /\ calls[c].pc \in {"inserted", "done", "threw"}) =>
            RowWithId(calls[c].id).src = LabelerDid

OtherSrcOnlySupplied ==
    \A i \in DOMAIN rows :
        rows[i].src # LabelerDid =>
            \E c \in Calls :
                /\ calls[c].pc \in {"inserted", "done", "threw"}
                /\ calls[c].id = rows[i].id
                /\ calls[c].origin.kind = "direct"
                /\ rows[i].val = SrcLabelData.val
                /\ rows[i].src = SrcLabelData.src

Resolved(c) == calls[c].pc = "done"
Rejected(c) == calls[c].pc \in {"failed", "insertFailed", "threw"}

\* The row the call's INSERT wrote, if it wrote one
RowsWrittenBy(c) ==
    IF "id" \in DOMAIN calls[c]
    THEN {i \in DOMAIN rows : rows[i].id = calls[c].id}
    ELSE {}

ResolvedIsStored(c) ==
    \E i \in DOMAIN rows :
        /\ rows[i].id = calls[c].returned.id
        /\ rows[i].src = calls[c].returned.src
        /\ rows[i].uri = calls[c].returned.uri
        /\ rows[i].val = calls[c].returned.val
        /\ toBytes(rows[i].sig) = calls[c].returned.sig

C37_CreateLabelFailureAtomic ==
    \A c \in Calls :
        /\ Resolved(c) => ResolvedIsStored(c)
        /\ Rejected(c) => RowsWrittenBy(c) = {}
        /\ Len(rows) = Cardinality({d \in Calls : RowsWrittenBy(d) # {}})


(***************************************************************************)
(* addSubscription and removeSubscription called in any order, for any     *)
(* stream name and any socket.                                             *)
(***************************************************************************)
OTHER_NSID == "com.example.other.subscribe"

StreamNames == {SUBSCRIBE_NSID, OTHER_NSID}

Subscribers == 1..(MaxSockets + 1)

\* query keeps the last call and the map it was made on
AddSubscription(nsid, ws) ==
    /\ connections' = addSubscription(connections, nsid, ws)
    /\ query' = [op |-> "add", nsid |-> nsid, ws |-> ws, before |-> connections]
    /\ UNCHANGED <<rows, wsState, broken, sub, sent, calls, emit, jwt, boot>>

RemoveSubscription(nsid, ws) ==
    /\ connections' = removeSubscription(connections, nsid, ws)
    /\ query' = [op |-> "remove", nsid |-> nsid, ws |-> ws, before |-> connections]
    /\ UNCHANGED <<rows, wsState, broken, sub, sent, calls, emit, jwt, boot>>

NextSubs ==
    \/ \E nsid \in StreamNames, ws \in Subscribers : AddSubscription(nsid, ws)
    \/ \E nsid \in StreamNames, ws \in Subscribers : RemoveSubscription(nsid, ws)

SpecSubs == Init /\ [][NextSubs]_vars

(***************************************************************************)
(* C38: after any sequence of addSubscription and removeSubscription       *)
(* calls the connections map never holds an empty set: a stream name is a  *)
(* key of the map iff at least one connection is registered for it, each   *)
(* connection occurs at most once in its set, and removing a connection    *)
(* that is not registered changes nothing.                                 *)
(***************************************************************************)
Registered(conns, nsid) == IF MapHas(conns, nsid) THEN Range(conns[nsid]) ELSE {}

NoEmptySet ==
    \A nsid \in DOMAIN connections :
        /\ connections[nsid] # <<>>
        /\ \A i, j \in DOMAIN connections[nsid] :
              i # j => connections[nsid][i] # connections[nsid][j]

\* A call registers or unregisters one socket for one stream name and
\* leaves the other registrations alone
CallsKeepTheRest ==
    \E nsid \in StreamNames, ws \in Subscribers :
        /\ Registered(connections', nsid) \in
              {Registered(connections, nsid) \cup {ws}, Registered(connections, nsid) \ {ws}}
        /\ \A other \in StreamNames \ {nsid} :
              Registered(connections', other) = Registered(connections, other)

LastCall(op) == "op" \in DOMAIN query /\ query.op = op

RemovingAbsentChangesNothing ==
    (LastCall("remove") /\ query.ws \notin Registered(query.before, query.nsid)) =>
        connections = query.before

AddingTwiceChangesNothing ==
    (LastCall("add") /\ query.ws \in Registered(query.before, query.nsid)) =>
        connections = query.before

C38_ConnectionsMapTidy ==
    [](NoEmptySet /\ RemovingAbsentChangesNothing /\ AddingTwiceChangesNothing)
    /\ [][CallsKeepTheRest]_vars

\* The last connection of a stream was removed while the other stream has
\* two.
C38_Witness ==
    /\ LastCall("remove")
    /\ Registered(query.before, query.nsid) = {query.ws}
    /\ DOMAIN connections = StreamNames \ {query.nsid}
    /\ \E nsid \in DOMAIN connections : Len(connections[nsid]) = 2

================================================================
